---------------------------- MODULE Spec2Model ----------------------------
(***************************************************************************)
(* Timeline viewport and interaction engine of the Gantt chart component.  *)
(*                                                                         *)
(* The model follows GanttChart.svelte (scroll synchronisation, zoom       *)
(* buttons, scrollToDate, canvas pan), GanttTimeline.svelte (zoom handler, *)
(* drag controller), zoom-gesture.ts (wheel / pinch detector),             *)
(* zoom-scale.ts (scale <-> dayWidth, tick table) and gantt-store.ts       *)
(* (date window, adaptive buffer, expansion).                              *)
(*                                                                         *)
(* Numbers.  JavaScript numbers are modelled as exact rationals <<n, d>>   *)
(* (d > 0, lowest terms): outside the rounding section below the model     *)
(* abstracts IEEE rounding, it does not abstract the arithmetic.           *)
(* Calendar dates are day counts relative to "today" (day 0); a Luxon      *)
(* plus({days: x}) / diff(..., 'days') pair is addition / subtraction of   *)
(* day counts (one ambient calendar, no DST).                              *)
(*                                                                         *)
(* Panes.  A pane is the DOM property the code reads and writes: an        *)
(* assignment stores the value (an offset below 0 is stored as 0) and      *)
(* queues a scroll event for the pane when the stored value changed.  A    *)
(* pane has at most one queued scroll event.  Queued scroll events and     *)
(* release timers are delivered in any order.                              *)
(*                                                                         *)
(* TickDefinition.minorInterval, read by the store, is the `interval`      *)
(* field of the table in zoom-scale.ts.                                    *)
(*                                                                         *)
(* Tick table.  TICK_DEFINITIONS is module-level mutable state; hosts      *)
(* change it with addCustomTickDefinition / removeCustomTickDefinition.    *)
(* The header asks tick-generator.ts, which keeps a Map of its own         *)
(* (customTickDefs) in front of that table.                                *)
(*                                                                         *)
(* Pointer.  One mouse button is down at a time.  A press lands on a bar   *)
(* or handle (GanttTimeline.handleMouseDown, which stops propagation) or   *)
(* on the empty canvas (GanttChart.handleMouseDown).  window delivers a    *)
(* mousemove / mouseup to every listener registered.                       *)
(*                                                                         *)
(* Host.  The rows belong to the host.  It applies the edits it is handed  *)
(* as the controlled mode of examples/demo.svelte does, and may take a row *)
(* away at any time.                                                       *)
(*                                                                         *)
(* Rounding.  Where the rounding of a product or quotient is the subject   *)
(* (scale <-> dayWidth conversion), a number is a binary floating-point    *)
(* value of FloatPrecision significant bits and an operation is the exact  *)
(* operation followed by round-to-nearest, ties to even, as IEEE 754       *)
(* prescribes for double precision with 53 bits.                           *)
(*                                                                         *)
(* Hierarchy.  Node objects live in a heap and arrays hold references, so  *)
(* that a write through a reference is seen by every holder of it.  The    *)
(* store keeps the array it was given (controlled mode) or the array it    *)
(* computed (uncontrolled mode); the host keeps its own.                   *)
(*                                                                         *)
(* Lifecycle.  The emitter appends a phase to its history unless it was    *)
(* disposed.  onMount emits initializing and rendering, the second         *)
(* animation frame emits mounted and queues the promise callback that      *)
(* emits ready; a host may dispose the emitter at any time.                *)
(***************************************************************************)
EXTENDS Integers, Sequences, FiniteSets, Bags, TLC

(***************************************************************************)
(* Bounds of the model.                                                    *)
(***************************************************************************)
MaxScrollOps == 2
MaxZoomOps == 2
MaxPointerOps == 4
\* scroll and zoom inputs together, where both are explored
MaxViewOps == 2
\* pointer, scroll and zoom inputs together, where all are explored
MaxPanOps == 3

(***************************************************************************)
(* Environment parameters (not program constants).                         *)
(***************************************************************************)
\* clientWidth of the body pane, in px
ViewportWidths == {200}
\* getBoundingClientRect().left of the body pane, in px
BodyRectLeft == <<300, 1>>
\* config.dayWidth values the host passes at creation, in px per day
InitDayWidths == {<<30, 1>>, <<4000, 1>>}
\* calculateDateRange(nodes): the rows span today .. today + 31 days
BaseDateRange == [start |-> 0, end |-> 31]
\* vertical offsets a user can scroll to
VerticalOffsets == {0, 40}
\* Hammer's e.scale values of a pinchmove
PinchScales == {<<1, 10>>, <<10, 1>>}
\* clientX values of wheel events
WheelClientXs == {<<350, 1>>, <<400, 1>>}
\* deltaY values of wheel events
WheelDeltaYs == {-100, 100}
\* targets of scrollToDate, in days relative to today
JumpTargets == {-2000, 10, 2000}
\* the rows on screen: a section with its tasks (one of them of no duration),
\* dates in days relative to today
VisibleNodes ==
    { [id |-> "section1", type |-> "section", parentId |-> "none",
       start |-> <<0, 1>>, end |-> <<10, 1>>],
      [id |-> "task1", type |-> "task", parentId |-> "section1",
       start |-> <<5, 1>>, end |-> <<6, 1>>],
      [id |-> "task2", type |-> "task", parentId |-> "section1",
       start |-> <<7, 1>>, end |-> <<15, 2>>],
      [id |-> "task3", type |-> "task", parentId |-> "section1",
       start |-> <<8, 1>>, end |-> <<8, 1>>] }
\* clientX of a mousedown on a bar or handle
DownXs == {100}
\* clientY of a mousedown
DownYs == {100}
\* clientY values of mousemove events during a canvas pan
MoveYs == {60, 100}
\* the mouse buttons
Buttons == {"left", "right"}
\* clientX values of mousemove events
MoveXs == {-400, 100, 104, 190, 1000}
\* definitions a host registers with addCustomTickDefinition
CustomTickDefinitions ==
    { [minScale |-> <<6, 1>>, interval |-> <<1, 2>>],
      [minScale |-> <<19, 20>>, interval |-> <<1, 1>>] }
\* minScale arguments of removeCustomTickDefinition
RemovedMinScales ==
    { <<100, 1>>, <<50, 1>>, <<25, 1>>, <<12, 1>>, <<6, 1>>, <<3, 1>>, <<3, 2>>,
      <<4, 5>>, <<2, 5>>, <<1, 5>>, <<0, 1>>, <<19, 20>>, <<7, 1>> }
\* minScale arguments of addCustomTickGenerationDef
CustomGenerationMinScales == { <<1, 2>>, <<6, 1>> }
\* definitions a host registers with addCustomTickGenerationDef (interval in days)
CustomGenerationDefs ==
    { [minorUnit |-> "hour", minorInterval |-> <<1, 2>>],
      [minorUnit |-> "week", minorInterval |-> <<7, 1>>] }
\* container width and dayWidth (px, px per day) a buffer is computed for
BufferViewports ==
    { [containerWidth |-> 1000, dayWidth |-> <<40, 1>>],
      [containerWidth |-> 200, dayWidth |-> <<4000, 1>>],
      [containerWidth |-> 1920, dayWidth |-> <<4, 1>>] }
\* scales a buffer is computed for
BufferScales ==
    { <<0, 1>>, <<1, 5>>, <<2, 5>>, <<1, 1>>, <<3, 2>>, <<3, 1>>, <<6, 1>>, <<12, 1>>,
      <<200, 1>> }
\* scales a tick definition is asked for
TickScales ==
    { <<0, 1>>, <<1, 10>>, <<47, 50>>, <<19, 20>>, <<1, 1>>, <<200, 1>> }

\* a node object of the hierarchy: parentId "none" is null, and an absent
\* isCollapsed is FALSE (both `!undefined` and `undefined === true` read it so)
Node(id, parentId, type, isCollapsed) ==
    [id |-> id, parentId |-> parentId, type |-> type, isCollapsed |-> isCollapsed]
\* the node list of the tests: a project, two sections, a task
TestTree ==
    << Node("1", "none", "project", FALSE), Node("2", "1", "section", FALSE),
       Node("3", "2", "task", FALSE), Node("4", "1", "section", FALSE) >>
\* a list that is not in display order: a child before its parent, siblings
\* apart, two roots, one section collapsed from the start
ShuffledTree ==
    << Node("3", "2", "task", FALSE), Node("1", "none", "project", FALSE),
       Node("4", "1", "section", FALSE), Node("2", "1", "section", TRUE),
       Node("5", "none", "project", FALSE) >>
\* node lists a host creates a store with
InitialTrees == {TestTree, ShuffledTree}
\* config.mode values
Modes == {"controlled", "uncontrolled"}
\* node ids a collapse toggle is asked for ("9" is no node's id)
ToggleIds == {"1", "2", "3", "4", "5", "9"}

\* null (in place of an object) and undefined (in place of a number)
Null == [null |-> TRUE]
Undefined == <<>>

(***************************************************************************)
(* Exact rational arithmetic.                                              *)
(***************************************************************************)
Abs(i) == IF i < 0 THEN -i ELSE i

\* The primitives are functions, so that an operand is evaluated once.
Rat == Int \X Int

GCD[a \in Nat, b \in Nat] == IF b = 0 THEN a ELSE GCD[b, a % b]

Norm[n \in Int, d \in Int] ==
    LET g == GCD[Abs(n), d] IN <<n \div g, d \div g>>

Int2R(i) == <<i, 1>>

RatNeg[a \in Rat] == <<-a[1], a[2]>>
RNeg(a) == RatNeg[a]

RatAdd[a \in Rat, b \in Rat] == Norm[a[1] * b[2] + b[1] * a[2], a[2] * b[2]]
RAdd(a, b) == RatAdd[a, b]
RSub(a, b) == RatAdd[a, RatNeg[b]]

RatMul[a \in Rat, b \in Rat] ==
    LET g1 == GCD[Abs(a[1]), b[2]]
        g2 == GCD[Abs(b[1]), a[2]]
    IN  Norm[(a[1] \div g1) * (b[1] \div g2), (a[2] \div g2) * (b[2] \div g1)]
RMul(a, b) == RatMul[a, b]

RatInv[a \in Rat] == IF a[1] > 0 THEN <<a[2], a[1]>> ELSE <<-a[2], -a[1]>>
RInv(a) == RatInv[a]
RDiv(a, b) == RatMul[a, RatInv[b]]
RLt(a, b) == a[1] * b[2] < b[1] * a[2]
RLe(a, b) == a[1] * b[2] <= b[1] * a[2]
RMax(a, b) == IF RLt(a, b) THEN b ELSE a
RMin(a, b) == IF RLt(b, a) THEN b ELSE a
RAbs(a) == <<Abs(a[1]), a[2]>>
\* Math.ceil
Ceil(a) == -((-a[1]) \div a[2])
\* Math.floor
Floor(a) == a[1] \div a[2]
\* Math.round: the nearest integer, halves towards +infinity
Round(a) == (2 * a[1] + a[2]) \div (2 * a[2])
IMax(i, j) == IF i < j THEN j ELSE i

(***************************************************************************)
(* zoom-scale.ts                                                           *)
(***************************************************************************)
BASE_DAY_WIDTH == 40
\* DEFAULT_CONFIG.mode
DEFAULT_MODE == "controlled"
\* DEFAULT_CONFIG.dragSnapDivision
dragSnapDivision == 4
ZOOM_MIN == <<1, 10>>
ZOOM_MAX == <<200, 1>>

getDayWidthFromScale(scale) == RMul(Int2R(BASE_DAY_WIDTH), scale)
getScaleFromDayWidth(dayWidth) == RDiv(dayWidth, Int2R(BASE_DAY_WIDTH))

\* TICK_DEFINITIONS as the module is loaded, descending in minScale; interval in days
\* (Luxon's casual conversion: week = 7, month = 30, year = 365 days)
TICK_DEFINITIONS == <<
    [minScale |-> <<100, 1>>, interval |-> <<1, 24>>],
    [minScale |-> <<50, 1>>,  interval |-> <<3, 24>>],
    [minScale |-> <<25, 1>>,  interval |-> <<6, 24>>],
    [minScale |-> <<12, 1>>,  interval |-> <<12, 24>>],
    [minScale |-> <<6, 1>>,   interval |-> <<1, 1>>],
    [minScale |-> <<3, 1>>,   interval |-> <<2, 1>>],
    [minScale |-> <<3, 2>>,   interval |-> <<7, 1>>],
    [minScale |-> <<4, 5>>,   interval |-> <<14, 1>>],
    [minScale |-> <<2, 5>>,   interval |-> <<30, 1>>],
    [minScale |-> <<1, 5>>,   interval |-> <<90, 1>>],
    [minScale |-> <<0, 1>>,   interval |-> <<365, 1>> ] >>

\* the for-loop of getTickDefinitionForScale from entry i on, and its
\* fallback TICK_DEFINITIONS[length - 1] (undefined for an empty table)
RECURSIVE FirstDef(_, _, _)
FirstDef(table, scale, i) ==
    IF i > Len(table)
    THEN IF Len(table) = 0 THEN Undefined ELSE table[Len(table)]
    ELSE IF RLe(table[i].minScale, scale) THEN table[i]
    ELSE FirstDef(table, scale, i + 1)

(***************************************************************************)
(* State                                                                   *)
(***************************************************************************)
VARIABLES
    phase,              \* render-lifecycle phase of the chart
    clientWidth,        \* timelineWrapperElement.clientWidth
    tickDefinitions,    \* zoom-scale.ts: the module-level table TICK_DEFINITIONS
    customTickDefs,     \* tick-generator.ts: the module-level Map customTickDefs
    heap,               \* the node objects allocated so far; a reference is an index
    storeNodes,         \* store: the node list of the `nodes` writable, as references
    hostNodes,          \* host: the node list it handed to the store, as references
    storeMode,          \* store: config.mode
    eventQueue,         \* LifecycleEventEmitter: eventQueue, the phases emitted
    isDisposed,         \* LifecycleEventEmitter: isDisposed
    readyQueued,        \* the tick().then callback of onMount is queued
    extendedDateRange,  \* store: the materialized date window [start, end]
    configDayWidth,     \* store: config.dayWidth
    storeZoomScale,     \* store: zoomScale
    currentZoomScale,   \* GanttChart: currentZoomScale
    tlZoomScale,        \* GanttTimeline: currentZoomScale
    detector,           \* ZoomGestureDetector (Null until created)
    dom,                \* scroll offsets of the three panes
    pendingScroll,      \* panes with a queued scroll event
    isScrolling,        \* GanttChart: re-entrancy guard
    timers,             \* queued guard-release timers
    panState,           \* GanttChart: canvas-pan state
    nodes,              \* host: the rows handed to the chart
    dragState,          \* GanttTimeline: the drag session
    windowListeners,    \* window's event listener list, as a bag of handlers
    heldButton,         \* environment: the mouse button that is physically down
    groupSum,           \* history: sum of the group deltas dispatched in the session
    lastStep,           \* history: what the step just taken did (NoStep: nothing to record)
    progWrites,         \* history: scroll assignments since the last user input
    scrollOps,          \* number of user scroll inputs so far
    zoomOps,            \* number of zoom inputs so far
    pointerOps          \* number of pointer inputs so far

storeVars == <<extendedDateRange, configDayWidth, storeZoomScale>>
zoomVars == <<currentZoomScale, tlZoomScale, detector>>
syncVars == <<dom, pendingScroll, isScrolling, timers>>
dragVars == <<nodes, dragState, windowListeners, heldButton, groupSum>>
histVars == <<lastStep, progWrites>>
countVars == <<scrollOps, zoomOps, pointerOps>>
treeVars == <<heap, storeNodes, hostNodes, storeMode>>
lifeVars == <<eventQueue, isDisposed, readyQueued>>
tickVars == <<tickDefinitions, customTickDefs>>
vars == <<phase, clientWidth, tickVars, treeVars, lifeVars, storeVars, zoomVars,
          syncVars, panState, dragVars, histVars, countVars>>

(***************************************************************************)
(* gantt-store.ts: adaptive buffer                                         *)
(***************************************************************************)
\* getTickDefinitionForScale(scale)
getTickDefinitionForScale(scale) == FirstDef(tickDefinitions, scale, 1)

\* a buffer whose day tier ends before the week
calculateAdaptiveBufferWeekExclusive(viewportDays, zoomScale) ==
    LET iv == getTickDefinitionForScale(zoomScale).interval
        intervalDays == Norm[iv[1], iv[2]]
        vp(k) == viewportDays * k
        tk(k) == Ceil(RMul(intervalDays, Int2R(k)))
    IN  IF RLt(intervalDays, Int2R(1)) THEN IMax(vp(3), tk(50))
        ELSE IF RLt(intervalDays, Int2R(7)) THEN IMax(vp(5), tk(30))
        ELSE IF RLe(intervalDays, Int2R(31)) THEN IMax(vp(8), tk(20))
        ELSE IMax(vp(15), tk(15))

calculateAdaptiveBuffer(viewportDays, zoomScale) ==
    LET iv == getTickDefinitionForScale(zoomScale).interval
        intervalDays == Norm[iv[1], iv[2]]
        vp(k) == viewportDays * k
        tk(k) == Ceil(RMul(intervalDays, Int2R(k)))
    IN  IF RLt(intervalDays, Int2R(1)) THEN IMax(vp(3), tk(50))
        ELSE IF RLe(intervalDays, Int2R(7)) THEN IMax(vp(5), tk(30))
        ELSE IF RLe(intervalDays, Int2R(31)) THEN IMax(vp(8), tk(20))
        ELSE IMax(vp(15), tk(15))

ViewportDays(containerWidth, dayWidth) == Ceil(RDiv(Int2R(containerWidth), dayWidth))


\* a mouse button is physically down
buttonHeld == heldButton # "none"

Zero == <<0, 1>>
Half(i) == <<i, 2>>

\* GanttChart.svelte: currentZoomScale = 1.0, then the reactive block that
\* follows config.dayWidth when it is more than 0.1 away
ChartScaleFor(dayWidth, scale) ==
    LET s == getScaleFromDayWidth(dayWidth)
    IN  IF RLt(<<1, 10>>, RAbs(RSub(s, scale))) THEN s ELSE scale

\* GanttTimeline.svelte: the reactive block that follows the dayWidth prop
\* when it is more than 0.01 away
TimelineScaleFor(dayWidth, scale) ==
    LET s == getScaleFromDayWidth(dayWidth)
    IN  IF RLt(<<1, 100>>, RAbs(RSub(s, scale))) THEN s ELSE scale

\* ... and pushes the new scale into the detector
DetectorFor(dayWidth, scale, det) ==
    LET s == getScaleFromDayWidth(dayWidth)
    IN  IF det # Null /\ RLt(<<1, 100>>, RAbs(RSub(s, scale)))
        THEN [det EXCEPT !.currentScale = s]
        ELSE det

NoStep == [kind |-> "none"]

\* the state after construction: createGanttStore(initialNodes, {mode}) and
\* the component's own fields; step is the history record it starts with
InitWith(step, initialNodes, mode) ==
    /\ phase = "initializing"
    /\ clientWidth \in ViewportWidths
    /\ tickDefinitions = TICK_DEFINITIONS
    /\ customTickDefs = <<>>
    /\ heap = initialNodes
    /\ storeNodes = [i \in DOMAIN initialNodes |-> i]
    /\ hostNodes = [i \in DOMAIN initialNodes |-> i]
    /\ storeMode = mode
    /\ eventQueue = <<>>
    /\ isDisposed = FALSE
    /\ readyQueued = FALSE
    /\ extendedDateRange = [start |-> -30, end |-> 60]
    /\ configDayWidth \in InitDayWidths
    /\ storeZoomScale = <<1, 1>>
    /\ currentZoomScale = ChartScaleFor(configDayWidth, <<1, 1>>)
    /\ tlZoomScale = getScaleFromDayWidth(configDayWidth)
    /\ detector = Null
    /\ dom = [bodyLeft |-> Zero, bodyTop |-> 0, headerLeft |-> Zero, treeTop |-> 0]
    /\ pendingScroll = {}
    /\ isScrolling = FALSE
    /\ timers = 0
    /\ panState = Null
    /\ nodes = VisibleNodes
    /\ dragState = Null
    /\ windowListeners = EmptyBag
    /\ heldButton = "none"
    /\ groupSum = Zero
    /\ lastStep = step
    /\ progWrites = 0
    /\ scrollOps = 0
    /\ zoomOps = 0
    /\ pointerOps = 0

Init == InitWith(NoStep, TestTree, DEFAULT_MODE)

(***************************************************************************)
(* Pane writes.  st = [dom, pending, writes, assigned, log]                *)
(***************************************************************************)
Start(d, p) == [dom |-> d, pending |-> p, writes |-> 0, assigned |-> {}, log |-> <<>>]

SetLeft(st, field, pane, v) ==
    LET c == RMax(Zero, v)
    IN  IF st.dom[field] = c
        THEN [st EXCEPT !.writes = @ + 1, !.assigned = @ \cup {v},
                        !.log = Append(@, <<pane, v>>)]
        ELSE [st EXCEPT !.dom[field] = c, !.pending = @ \cup {pane},
                        !.writes = @ + 1, !.assigned = @ \cup {v},
                        !.log = Append(@, <<pane, v>>)]

SetTop(st, field, pane, v) ==
    LET c == IMax(0, v)
    IN  IF st.dom[field] = c
        THEN [st EXCEPT !.writes = @ + 1, !.assigned = @ \cup {Int2R(v)},
                        !.log = Append(@, <<pane, Int2R(v)>>)]
        ELSE [st EXCEPT !.dom[field] = c, !.pending = @ \cup {pane},
                        !.writes = @ + 1, !.assigned = @ \cup {Int2R(v)},
                        !.log = Append(@, <<pane, Int2R(v)>>)]

(***************************************************************************)
(* gantt-store.ts: the date window                                         *)
(***************************************************************************)
initExtendedDateRange(containerWidth, dayWidth, zoomScale) ==
    LET viewportDays == ViewportDays(containerWidth, dayWidth)
        bufferDays == calculateAdaptiveBuffer(viewportDays, zoomScale)
    IN  [start |-> BaseDateRange.start - bufferDays,
         end |-> BaseDateRange.end + bufferDays]

\* a recentring that forgets the half viewport
RecenteredScrollLeftNoHalf(centerDate, newStart, viewportDays, dayWidth) ==
    RMul(RSub(centerDate, Int2R(newStart)), dayWidth)

\* scrollLeft that keeps centerDate at the viewport centre of the new window
RecenteredScrollLeft(centerDate, newStart, viewportDays, dayWidth) ==
    LET newCenterDays == RSub(centerDate, Int2R(newStart))
        newScrollDays == RSub(newCenterDays, Half(viewportDays))
    IN  RMul(newScrollDays, dayWidth)

NearLeftEdge(scrollDays, threshold) == RLt(scrollDays, threshold)

\* a right-edge test that forgets the viewport's own width
NearRightEdgeNoViewport(scrollDays, totalDays, threshold, viewportDays) ==
    RLt(RSub(Int2R(totalDays), threshold), scrollDays)

NearRightEdge(scrollDays, totalDays, threshold, viewportDays) ==
    RLt(RSub(RSub(Int2R(totalDays), threshold), Int2R(viewportDays)), scrollDays)

\* an expansion that leaves the pane where it was
expandExtendedDateRangeKeepsOffset(scrollLeft, containerWidth, dayWidth, zoomScale, current) ==
    LET viewportDays == ViewportDays(containerWidth, dayWidth)
        threshold == Half(viewportDays)
        bufferDays == calculateAdaptiveBuffer(viewportDays, zoomScale)
        totalDays == current.end - current.start
        scrollDays == RDiv(scrollLeft, dayWidth)
        left == NearLeftEdge(scrollDays, threshold)
        right == NearRightEdge(scrollDays, totalDays, threshold, viewportDays)
    IN  [needsExpansion |-> left \/ right,
         left |-> left, right |-> right,
         range |-> [start |-> IF left THEN current.start - bufferDays ELSE current.start,
                    end |-> IF right THEN current.end + bufferDays ELSE current.end],
         centerDate |-> RAdd(Int2R(current.start), RAdd(scrollDays, Half(viewportDays))),
         viewportDays |-> viewportDays,
         newScrollLeft |-> scrollLeft]

\* the result of expandExtendedDateRangeIfNeeded: whether it extended, the new
\* window, and the offset it assigns to the body pane
expandExtendedDateRangeIfNeeded(scrollLeft, containerWidth, dayWidth, zoomScale, current) ==
    LET viewportDays == ViewportDays(containerWidth, dayWidth)
        threshold == Half(viewportDays)
        bufferDays == calculateAdaptiveBuffer(viewportDays, zoomScale)
        totalDays == current.end - current.start
        scrollDays == RDiv(scrollLeft, dayWidth)
        centerDays == RAdd(scrollDays, Half(viewportDays))
        centerDate == RAdd(Int2R(current.start), centerDays)
        left == NearLeftEdge(scrollDays, threshold)
        right == NearRightEdge(scrollDays, totalDays, threshold, viewportDays)
        newStart == IF left THEN current.start - bufferDays ELSE current.start
        newEnd == IF right THEN current.end + bufferDays ELSE current.end
        newScrollLeft == RecenteredScrollLeft(centerDate, newStart, viewportDays, dayWidth)
    IN  [needsExpansion |-> left \/ right,
         left |-> left, right |-> right,
         range |-> [start |-> newStart, end |-> newEnd],
         centerDate |-> centerDate,
         viewportDays |-> viewportDays,
         newScrollLeft |-> newScrollLeft]


(***************************************************************************)
(* GanttChart.svelte: mount                                                *)
(***************************************************************************)
\* an emitter that records the newest event first
emitNewestFirst(queue, emitted) ==
    IF isDisposed THEN queue ELSE <<emitted>> \o queue

\* LifecycleEventEmitter.emit(phase): the eventQueue it leaves
emit(queue, emitted) == IF isDisposed THEN queue ELSE Append(queue, emitted)

\* onMount: emit('initializing'), startMounting, startMeasuring,
\* emit('rendering'), initExtendedDateRange
Mount ==
    /\ phase = "initializing"
    /\ phase' = "measuring"
    /\ eventQueue' = emit(emit(eventQueue, "initializing"), "rendering")
    /\ UNCHANGED <<isDisposed, readyQueued>>
    /\ extendedDateRange' =
           initExtendedDateRange(clientWidth, configDayWidth, currentZoomScale)
    /\ lastStep' = NoStep
    /\ UNCHANGED <<clientWidth, tickVars, treeVars, configDayWidth, storeZoomScale,
                   zoomVars, syncVars, panState, dragVars, progWrites, countVars>>

\* first animation frame: startRendering
FirstFrame ==
    /\ phase = "measuring"
    /\ phase' = "rendering"
    /\ lastStep' = NoStep
    /\ UNCHANGED <<clientWidth, tickVars, treeVars, lifeVars, storeVars,
                   zoomVars, syncVars, panState, dragVars, progWrites, countVars>>

\* second animation frame: emit('mounted'), markReady, tick().then(...);
\* GanttTimeline then creates the detector
SecondFrame ==
    /\ phase = "rendering"
    /\ phase' = "ready"
    /\ eventQueue' = emit(eventQueue, "mounted")
    /\ readyQueued' = TRUE
    /\ UNCHANGED isDisposed
    /\ detector' = [currentScale |-> getScaleFromDayWidth(configDayWidth),
                    pinchStartScale |-> getScaleFromDayWidth(configDayWidth),
                    pinching |-> FALSE]
    /\ lastStep' = NoStep
    /\ UNCHANGED <<clientWidth, tickVars, treeVars, storeVars, currentZoomScale,
                   tlZoomScale, syncVars, panState, dragVars, progWrites, countVars>>

Mounted == phase # "initializing"
isReady == phase = "ready"

(***************************************************************************)
(* User scrolling                                                          *)
(***************************************************************************)
\* largest offset the rendered timeline lets the user reach
MaxScrollLeft ==
    LET totalDays == extendedDateRange.end - extendedDateRange.start
    IN  RMax(Zero, RSub(RMul(Int2R(totalDays), configDayWidth), Int2R(clientWidth)))

HorizontalOffsets ==
    {Zero, Int2R(Floor(RDiv(MaxScrollLeft, Int2R(2)))), Int2R(Floor(MaxScrollLeft))}

UserScroll(field, pane, v) ==
    /\ Mounted
    /\ scrollOps < MaxScrollOps
    /\ dom[field] # v
    /\ dom' = [dom EXCEPT ![field] = v]
    /\ pendingScroll' = pendingScroll \cup {pane}
    /\ scrollOps' = scrollOps + 1
    /\ progWrites' = 0
    /\ lastStep' = NoStep
    /\ UNCHANGED <<phase, clientWidth, tickVars, treeVars, lifeVars, storeVars,
                   zoomVars, isScrolling, timers, panState, dragVars, zoomOps,
                   pointerOps>>

UserScrollBodyX == \E v \in HorizontalOffsets : UserScroll("bodyLeft", "body", v)
UserScrollBodyY == \E v \in VerticalOffsets : UserScroll("bodyTop", "body", v)
UserScrollHeader == \E v \in HorizontalOffsets : UserScroll("headerLeft", "header", v)
UserScrollTree == \E v \in VerticalOffsets : UserScroll("treeTop", "tree", v)

(***************************************************************************)
(* GanttChart.svelte: scroll synchronisation                               *)
(***************************************************************************)
\* a body-pane handler that leaves the header where the first write put it
TimelineScrollBodyNoResync(st0, ex) ==
    LET scrollLeft == st0.dom.bodyLeft
        st1 == IF st0.dom.headerLeft # scrollLeft
               THEN SetLeft(st0, "headerLeft", "header", scrollLeft)
               ELSE st0
        st2 == IF ex.needsExpansion
               THEN SetLeft(st1, "bodyLeft", "body", RMax(Zero, ex.newScrollLeft))
               ELSE st1
    IN  IF st2.dom.treeTop # st2.dom.bodyTop
        THEN SetTop(st2, "treeTop", "tree", st2.dom.bodyTop)
        ELSE st2

\* body of handleTimelineScroll once the guard is passed
TimelineScrollBody(st0, ex) ==
    LET scrollLeft == st0.dom.bodyLeft
        st1 == IF st0.dom.headerLeft # scrollLeft
               THEN SetLeft(st0, "headerLeft", "header", scrollLeft)
               ELSE st0
        st2 == IF ex.needsExpansion
               THEN SetLeft(st1, "bodyLeft", "body", RMax(Zero, ex.newScrollLeft))
               ELSE st1
        st3 == IF ex.needsExpansion
               THEN SetLeft(st2, "headerLeft", "header", st2.dom.bodyLeft)
               ELSE st2
    IN  IF st3.dom.treeTop # st3.dom.bodyTop
        THEN SetTop(st3, "treeTop", "tree", st3.dom.bodyTop)
        ELSE st3

\* body of handleTreeScroll once the guard is passed
TreeScrollBody(st0) ==
    IF st0.dom.bodyTop # st0.dom.treeTop
    THEN SetTop(st0, "bodyTop", "body", st0.dom.treeTop)
    ELSE st0

\* body of handleHeaderScroll once the guard is passed
HeaderScrollBody(st0) ==
    IF st0.dom.bodyLeft # st0.dom.headerLeft
    THEN SetLeft(st0, "bodyLeft", "body", st0.dom.headerLeft)
    ELSE st0

ExpandRecord(ex, st, log) ==
    [kind |-> "expand", left |-> ex.left, right |-> ex.right,
     centerBefore |-> ex.centerDate, newStart |-> ex.range.start,
     viewportDays |-> ex.viewportDays, dayWidth |-> configDayWidth,
     computed |-> ex.newScrollLeft, bodyAfter |-> st.dom.bodyLeft,
     assigned |-> st.assigned,
     scrollLeft |-> dom.bodyLeft, headerBefore |-> dom.headerLeft,
     rangeBefore |-> extendedDateRange,
     zoomScale |-> currentZoomScale, returned |-> ex.needsExpansion, log |-> log]

\* the expansion check ran and extended nothing
NoExpandRecord(ex, log) ==
    [kind |-> "no-expand", scrollLeft |-> dom.bodyLeft, headerBefore |-> dom.headerLeft,
     rangeBefore |-> extendedDateRange, dayWidth |-> configDayWidth,
     zoomScale |-> currentZoomScale, returned |-> ex.needsExpansion, log |-> log]

\* a handler that passed the guard: it leaves the guard set and queues a release
Handled(st) ==
    /\ dom' = st.dom
    /\ pendingScroll' = st.pending
    /\ isScrolling' = TRUE
    /\ timers' = timers + 1
    /\ progWrites' = progWrites + st.writes

\* what a handler that returned at once found
IgnoredRecord(pane) ==
    [kind |-> "ignored", pane |-> pane, domBefore |-> dom, timersBefore |-> timers,
     rangeBefore |-> extendedDateRange]

\* a handler that queues a release before it looks at the guard
IgnoredQueuesRelease(pane) ==
    /\ isScrolling
    /\ pendingScroll' = pendingScroll \ {pane}
    /\ timers' = timers + 1
    /\ lastStep' = IgnoredRecord(pane)
    /\ UNCHANGED <<dom, isScrolling, progWrites, storeVars>>

\* a handler that found the guard set returns at once
Ignored(pane) ==
    /\ isScrolling
    /\ pendingScroll' = pendingScroll \ {pane}
    /\ lastStep' = IgnoredRecord(pane)
    /\ UNCHANGED <<dom, isScrolling, timers, progWrites, storeVars>>

handleTimelineScroll ==
    /\ "body" \in pendingScroll
    /\ \/ Ignored("body")
       \/ /\ ~isScrolling
          /\ \E ex \in {expandExtendedDateRangeIfNeeded(dom.bodyLeft, clientWidth,
                           configDayWidth, currentZoomScale, extendedDateRange)} :
             \E st \in {TimelineScrollBody(Start(dom, pendingScroll \ {"body"}), ex)} :
                 /\ Handled(st)
                 /\ extendedDateRange' =
                        IF ex.needsExpansion THEN ex.range ELSE extendedDateRange
                 /\ lastStep' =
                        IF ex.needsExpansion
                        THEN ExpandRecord(ex, SetLeft(Start(dom, {}), "bodyLeft", "body",
                                                      RMax(Zero, ex.newScrollLeft)),
                                          st.log)
                        ELSE NoExpandRecord(ex, st.log)
          /\ UNCHANGED <<configDayWidth, storeZoomScale>>
    /\ UNCHANGED <<phase, clientWidth, tickVars, treeVars, lifeVars, zoomVars,
                   panState, dragVars, countVars>>

handleTreeScroll ==
    /\ "tree" \in pendingScroll
    /\ \/ Ignored("tree")
       \/ /\ ~isScrolling
          /\ Handled(TreeScrollBody(Start(dom, pendingScroll \ {"tree"})))
          /\ lastStep' = NoStep
          /\ UNCHANGED storeVars
    /\ UNCHANGED <<phase, clientWidth, tickVars, treeVars, lifeVars, zoomVars,
                   panState, dragVars, countVars>>

handleHeaderScroll ==
    /\ "header" \in pendingScroll
    /\ \/ Ignored("header")
       \/ /\ ~isScrolling
          /\ Handled(HeaderScrollBody(Start(dom, pendingScroll \ {"header"})))
          /\ lastStep' = NoStep
          /\ UNCHANGED storeVars
    /\ UNCHANGED <<phase, clientWidth, tickVars, treeVars, lifeVars, zoomVars,
                   panState, dragVars, countVars>>

\* a release timer whose callback leaves the guard as it is
ReleaseGuardKeepsGuard ==
    /\ timers > 0
    /\ timers' = timers - 1
    /\ lastStep' = NoStep
    /\ UNCHANGED <<phase, clientWidth, tickVars, treeVars, lifeVars, storeVars,
                   zoomVars, dom, pendingScroll, isScrolling, panState, dragVars,
                   progWrites, countVars>>

\* setTimeout(() => { isScrolling = false; }, 0)
ReleaseGuard ==
    /\ timers > 0
    /\ timers' = timers - 1
    /\ isScrolling' = FALSE
    /\ lastStep' = NoStep
    /\ UNCHANGED <<phase, clientWidth, tickVars, treeVars, lifeVars, storeVars,
                   zoomVars, dom, pendingScroll, panState, dragVars, progWrites,
                   countVars>>

NextSync ==
    \/ Mount
    \/ FirstFrame
    \/ SecondFrame
    \/ UserScrollBodyX
    \/ UserScrollBodyY
    \/ UserScrollHeader
    \/ UserScrollTree
    \/ handleTimelineScroll
    \/ handleTreeScroll
    \/ handleHeaderScroll
    \/ ReleaseGuard

SpecSync == Init /\ [][NextSync]_vars

\* the event loop delivers every queued scroll event and runs every queued timer
SyncFairness ==
    /\ WF_vars(handleTimelineScroll)
    /\ WF_vars(handleTreeScroll)
    /\ WF_vars(handleHeaderScroll)
    /\ WF_vars(ReleaseGuard)

SpecLive == Init /\ [][NextSync]_vars /\ SyncFairness

\* no scroll event is queued, the guard is clear and no release timer is queued
AtRest == pendingScroll = {} /\ ~isScrolling /\ timers = 0

\* C1: whenever no scroll event is pending and the guard is clear, the header
\* pane has the body pane's horizontal offset and the row-label pane has the
\* body pane's vertical offset.
C1_PanesAgreeAtRest ==
    (pendingScroll = {} /\ ~isScrolling) =>
        /\ dom.headerLeft = dom.bodyLeft
        /\ dom.treeTop = dom.bodyTop

\* C2: a user scroll is followed by at most four programmatic scroll
\* assignments (header, body and header again on an expansion, row labels),
\* and once the user stops the system comes to rest and stays there.
C2_ScrollSettles ==
    /\ [](progWrites <= 4)
    /\ <>[]AtRest

\* a user scroll has been answered by programmatic assignments and the system
\* has come to rest
C2_Witness == scrollOps > 0 /\ progWrites > 0 /\ AtRest

(***************************************************************************)
(* Zoom: GanttChart.svelte buttons, zoom-gesture.ts, GanttTimeline.svelte  *)
(***************************************************************************)
\* the date shown `offset` px from the left edge of the body pane
DateAt(start, scrollLeft, offset, dayWidth) ==
    RAdd(Int2R(start), RDiv(RAdd(scrollLeft, offset), dayWidth))

\* GanttChart.handleTimelineZoom (and the same three assignments of the
\* buttons), followed by the reactive blocks of GanttChart and GanttTimeline;
\* tl and det are the timeline's scale and the detector before the blocks run
ZoomApplied(scale, newDayWidth, tl, det) ==
    /\ currentZoomScale' = ChartScaleFor(newDayWidth, scale)
    /\ storeZoomScale' = scale
    /\ configDayWidth' = newDayWidth
    /\ tlZoomScale' = TimelineScaleFor(newDayWidth, tl)
    /\ detector' = DetectorFor(newDayWidth, tl, det)

ButtonRecord(newDayWidth) ==
    [kind |-> "button", calls |-> 1,
     centerBefore |-> DateAt(extendedDateRange.start, dom.bodyLeft,
                             Half(clientWidth), configDayWidth),
     centerAfter |-> DateAt(extendedDateRange.start, dom.bodyLeft,
                            Half(clientWidth), newDayWidth)]

ButtonZoom(newScale) ==
    /\ Mounted
    /\ zoomOps < MaxZoomOps
    /\ ZoomApplied(newScale, getDayWidthFromScale(newScale), tlZoomScale, detector)
    /\ lastStep' = ButtonRecord(getDayWidthFromScale(newScale))
    /\ zoomOps' = zoomOps + 1
    /\ UNCHANGED <<phase, clientWidth, tickVars, treeVars, lifeVars,
                   extendedDateRange, syncVars, panState, dragVars, progWrites,
                   scrollOps, pointerOps>>

\* a + button without the upper clamp
zoomInUnclamped ==
    /\ RLt(currentZoomScale, ZOOM_MAX)
    /\ ButtonZoom(RMul(currentZoomScale, <<3, 2>>))

\* the + button (disabled at the upper limit)
zoomIn ==
    /\ RLt(currentZoomScale, ZOOM_MAX)
    /\ ButtonZoom(RMin(RMul(currentZoomScale, <<3, 2>>), ZOOM_MAX))

\* the - button (disabled at the lower limit)
zoomOut ==
    /\ RLt(ZOOM_MIN, currentZoomScale)
    /\ ButtonZoom(RMax(RDiv(currentZoomScale, <<3, 2>>), ZOOM_MIN))

\* GanttTimeline.handleZoomChange(newScale, _, mouseX): the clamped scale, the
\* new dayWidth and the offset it assigns to the body pane
handleZoomChange(newScale, mouseX) ==
    LET clampedScale == RMax(ZOOM_MIN, RMin(ZOOM_MAX, newScale))
        scrollLeft == dom.bodyLeft
        containerWidth == Int2R(clientWidth)
        mouseOffsetX == IF mouseX # Undefined THEN RSub(mouseX, BodyRectLeft)
                        ELSE Half(clientWidth)
        targetDays == RDiv(RAdd(scrollLeft, mouseOffsetX), configDayWidth)
        targetOffsetRatio == IF mouseX # Undefined THEN RDiv(mouseOffsetX, containerWidth)
                             ELSE <<1, 2>>
        newDayWidth == getDayWidthFromScale(clampedScale)
        newScrollLeft == RSub(RMul(targetDays, newDayWidth),
                              RMul(containerWidth, targetOffsetRatio))
    IN  [clampedScale |-> clampedScale, newDayWidth |-> newDayWidth,
         targetDays |-> targetDays, targetOffsetRatio |-> targetOffsetRatio,
         newScrollLeft |-> newScrollLeft]

\* what the detector handed to onZoomChange, and where the dates went
GestureRecord(kind, before, newScale, passedX, pointerX, z, st) ==
    LET offset == IF pointerX # Undefined THEN RSub(pointerX, BodyRectLeft)
                  ELSE Half(clientWidth)
    IN  [kind |-> kind, calls |-> 1, scaleBefore |-> before, scale |-> newScale,
         chartBefore |-> currentZoomScale, passedX |-> passedX, pointerX |-> pointerX,
         computed |-> z.newScrollLeft, assigned |-> st.assigned,
         anchorBefore |-> DateAt(extendedDateRange.start, dom.bodyLeft, offset,
                                 configDayWidth),
         anchorAfter |-> DateAt(extendedDateRange.start, st.dom.bodyLeft, offset,
                                z.newDayWidth)]

\* the detector sets its own scale, then calls onZoomChange(newScale, delta)
\* with no pointer position
Gesture(kind, newScale, pointerX) ==
    /\ detector # Null
    /\ isReady
    /\ zoomOps < MaxZoomOps
    /\ \E z \in {handleZoomChange(newScale, Undefined)} :
       \E st \in {SetLeft(Start(dom, pendingScroll), "bodyLeft", "body",
                          RMax(Zero, z.newScrollLeft))} :
           /\ ZoomApplied(z.clampedScale, z.newDayWidth, z.clampedScale,
                          [detector EXCEPT !.currentScale = newScale])
           /\ dom' = st.dom
           /\ pendingScroll' = st.pending
           /\ progWrites' = st.writes
           /\ lastStep' = GestureRecord(kind, detector.currentScale, newScale,
                                        Undefined, pointerX, z, st)
    /\ zoomOps' = zoomOps + 1
    /\ UNCHANGED <<phase, clientWidth, tickVars, treeVars, lifeVars,
                   extendedDateRange, isScrolling, timers, panState, dragVars,
                   scrollOps, pointerOps>>

\* a wheel event without Ctrl / Meta is not a zoom gesture
PlainWheel ==
    /\ detector # Null
    /\ zoomOps < MaxZoomOps
    /\ lastStep' = [kind |-> "plain-wheel", calls |-> 0]
    /\ zoomOps' = zoomOps + 1
    /\ UNCHANGED <<phase, clientWidth, tickVars, treeVars, lifeVars, storeVars,
                   zoomVars, syncVars, panState, dragVars, progWrites, scrollOps,
                   pointerOps>>

\* ZoomGestureDetector.handleWheel
handleWheel ==
    \/ PlainWheel
    \/ \E deltaY \in WheelDeltaYs, clientX \in WheelClientXs :
           Gesture(IF deltaY > 0 THEN "wheel-out" ELSE "wheel-in",
                   RMul(detector.currentScale,
                        IF deltaY > 0 THEN <<95, 100>> ELSE <<105, 100>>),
                   clientX)

\* Hammer 'pinchstart'
PinchStart ==
    /\ detector # Null
    /\ detector' = [detector EXCEPT !.pinchStartScale = detector.currentScale,
                                    !.pinching = TRUE]
    /\ lastStep' = NoStep
    /\ UNCHANGED <<phase, clientWidth, tickVars, treeVars, lifeVars, storeVars,
                   currentZoomScale, tlZoomScale, syncVars, panState, dragVars,
                   progWrites, countVars>>

\* Hammer 'pinchmove'
PinchMove ==
    /\ detector # Null
    /\ detector.pinching
    /\ \E scale \in PinchScales :
           Gesture("pinch", RMul(detector.pinchStartScale, scale), Undefined)

(***************************************************************************)
(* GanttChart.svelte: scrollToDate                                         *)
(***************************************************************************)
scrollToDate ==
    /\ Mounted
    /\ scrollOps < MaxScrollOps
    /\ \E targetDate \in JumpTargets :
       LET current == extendedDateRange
           targetDays == Int2R(targetDate - current.start)
           newScrollLeft == RSub(RMul(targetDays, configDayWidth), Half(clientWidth))
           st == SetLeft(Start(dom, pendingScroll), "bodyLeft", "body",
                         RMax(Zero, newScrollLeft))
       IN  /\ extendedDateRange' =
                  IF targetDate < current.start \/ targetDate > current.end
                  THEN initExtendedDateRange(clientWidth, configDayWidth,
                                             getScaleFromDayWidth(configDayWidth))
                  ELSE current
           /\ dom' = st.dom
           /\ pendingScroll' = st.pending
           /\ progWrites' = st.writes
           /\ lastStep' = [kind |-> "jump", targetDate |-> targetDate,
                           before |-> current, assigned |-> st.assigned]
    /\ scrollOps' = scrollOps + 1
    /\ UNCHANGED <<phase, clientWidth, tickVars, treeVars, lifeVars,
                   configDayWidth, storeZoomScale, zoomVars, isScrolling, timers,
                   panState, dragVars, zoomOps, pointerOps>>

\* the inputs of the viewport share one budget
ViewBudget == scrollOps + zoomOps < MaxViewOps

NextView ==
    \/ Mount
    \/ FirstFrame
    \/ SecondFrame
    \/ handleTimelineScroll
    \/ handleHeaderScroll
    \/ ReleaseGuard
    \/ PinchStart
    \/ (ViewBudget /\ UserScrollBodyX)
    \/ (ViewBudget /\ scrollToDate)
    \/ (ViewBudget /\ zoomIn)
    \/ (ViewBudget /\ zoomOut)
    \/ (ViewBudget /\ handleWheel)
    \/ (ViewBudget /\ PinchMove)

SpecView == Init /\ [][NextView]_vars

C4_WindowNeverShrinks ==
    [][Mounted =>
          /\ extendedDateRange'.start <= extendedDateRange.start
          /\ extendedDateRange'.end >= extendedDateRange.end
          /\ extendedDateRange'.start < extendedDateRange'.end]_vars

ZoomKinds == {"button", "wheel-in", "wheel-out", "pinch"}

C6_ZoomKeepsAnchor ==
    (lastStep.kind \in {"wheel-in", "wheel-out", "pinch"}
        /\ RLe(Zero, lastStep.computed)) =>
        lastStep.anchorAfter = lastStep.anchorBefore

\* C7: a Ctrl/Meta wheel event calls onZoomChange once, with the detector's
\* scale times 1.05 (zoom in) or 0.95 (zoom out), and with the event's clientX
\* as the pointer position.
C7_WheelPassesPointer ==
    lastStep.kind \in {"wheel-in", "wheel-out"} =>
        /\ lastStep.calls = 1
        /\ lastStep.scale =
               RMul(lastStep.scaleBefore,
                    IF lastStep.kind = "wheel-in" THEN <<105, 100>> ELSE <<95, 100>>)
        /\ lastStep.passedX = lastStep.pointerX

\* C8: after a zoom button click the date at the viewport centre is the date
\* that was there before.
C8_ButtonZoomKeepsCenter ==
    lastStep.kind = "button" => lastStep.centerAfter = lastStep.centerBefore

(***************************************************************************)
(* GanttTimeline.svelte: the drag controller                               *)
(***************************************************************************)
\* the handles the template puts on a row
DragModes(node) ==
    IF node.type = "section"
    THEN {"group-move", "move", "resize-start", "resize-end"}
    ELSE {"move", "resize-start", "resize-end"}

\* a listener list that takes a handler it already holds once more
addEventListenerAgain(listeners, listener) == listeners (+) SetToBag({listener})

\* EventTarget.addEventListener: a handler already in the list is not added
addEventListener(listeners, listener) ==
    IF BagIn(listener, listeners) THEN listeners ELSE listeners (+) SetToBag({listener})

\* EventTarget.removeEventListener: the handler's entry, if any, is removed
removeEventListener(listeners, listener) == listeners (-) SetToBag({listener})

\* handleMouseDown(node, mode, event)
handleMouseDown(node, mode, clientX) ==
    /\ dragState' = [nodeId |-> node.id, mode |-> mode,
                     originalStart |-> node.start, originalEnd |-> node.end,
                     startX |-> clientX, lastAppliedDelta |-> Zero]
    /\ windowListeners' = addEventListener(addEventListener(windowListeners,
                                                            "handleMouseMove"),
                                           "handleMouseUp")

\* a mouse button goes down on a bar or a handle
BarMouseDown ==
    /\ Mounted
    /\ pointerOps < MaxPointerOps
    /\ ~buttonHeld
    /\ \E node \in nodes : \E mode \in DragModes(node) : \E clientX \in DownXs :
       \E button \in Buttons :
           /\ handleMouseDown(node, mode, clientX)
           /\ heldButton' = button
           /\ lastStep' = [kind |-> "down", button |-> button,
                           sessionBefore |-> dragState, dispatched |-> <<>>]
    /\ groupSum' = Zero
    /\ pointerOps' = pointerOps + 1
    /\ UNCHANGED <<phase, clientWidth, tickVars, treeVars, lifeVars, storeVars,
                   zoomVars, syncVars, panState, nodes, progWrites, scrollOps,
                   zoomOps>>

\* GanttChart.handleMouseDown(event), reached by a press that no bar handler
\* stopped
handleMouseDownChart(button, clientX, clientY) ==
    IF button # "right" THEN UNCHANGED <<panState, windowListeners>>
    ELSE /\ panState' = [startX |-> clientX, startY |-> clientY,
                         scrollLeft |-> dom.bodyLeft, scrollTop |-> dom.bodyTop]
         /\ windowListeners' = addEventListener(addEventListener(windowListeners,
                                                                 "handlePanMove"),
                                                "handlePanEnd")

\* a mouse button goes down on a wrapper, outside the bars and handles
CanvasMouseDown ==
    /\ Mounted
    /\ pointerOps < MaxPointerOps
    /\ ~buttonHeld
    /\ \E button \in Buttons : \E clientX \in DownXs : \E clientY \in DownYs :
           /\ handleMouseDownChart(button, clientX, clientY)
           /\ heldButton' = button
           /\ lastStep' = [kind |-> "canvas-down", button |-> button,
                           sessionBefore |-> dragState, dispatched |-> <<>>]
    /\ pointerOps' = pointerOps + 1
    /\ UNCHANGED <<phase, clientWidth, tickVars, treeVars, lifeVars, storeVars,
                   zoomVars, syncVars, nodes, dragState, groupSum, progWrites,
                   scrollOps, zoomOps>>

\* a snap that truncates instead of rounding
SnappedDaysFloor(deltaX, dayWidth) ==
    LET snapUnit == RDiv(dayWidth, Int2R(dragSnapDivision))
        snappedDelta == RMul(Int2R(Floor(RDiv(Int2R(deltaX), snapUnit))), snapUnit)
    IN  RDiv(snappedDelta, dayWidth)

\* the days a pointer displacement stands for, in steps of 1 / dragSnapDivision
SnappedDays(deltaX, dayWidth) ==
    LET snapUnit == RDiv(dayWidth, Int2R(dragSnapDivision))
        snappedDelta == RMul(Int2R(Round(RDiv(Int2R(deltaX), snapUnit))), snapUnit)
    IN  RDiv(snappedDelta, dayWidth)

\* a move that shifts the start only
BarDragDatesStartOnly(ds, daysDelta) ==
    [start |-> RAdd(ds.originalStart, daysDelta), end |-> ds.originalEnd]

\* a resize without the clamp
BarDragDatesUnclamped(ds, daysDelta) ==
    [start |-> IF ds.mode \in {"move", "resize-start"}
               THEN RAdd(ds.originalStart, daysDelta) ELSE ds.originalStart,
     end |-> IF ds.mode \in {"move", "resize-end"}
             THEN RAdd(ds.originalEnd, daysDelta) ELSE ds.originalEnd]

\* handleMouseMove, bar modes: the dates handed to onBarDrag
BarDragDates(ds, daysDelta) ==
    LET movedStart == RAdd(ds.originalStart, daysDelta)
        movedEnd == RAdd(ds.originalEnd, daysDelta)
        newStart == IF ds.mode = "move" THEN movedStart
                    ELSE IF ds.mode = "resize-start"
                    THEN IF RLe(ds.originalEnd, movedStart)
                         THEN RSub(ds.originalEnd, Int2R(1))
                         ELSE movedStart
                    ELSE ds.originalStart
        newEnd == IF ds.mode = "move" THEN movedEnd
                  ELSE IF ds.mode = "resize-end"
                  THEN IF RLe(movedEnd, ds.originalStart)
                       THEN RAdd(ds.originalStart, Int2R(1))
                       ELSE movedEnd
                  ELSE ds.originalEnd
    IN  [start |-> newStart, end |-> newEnd]

\* a group-move that dispatches the whole delta on every move
handleMouseMoveAbsolute(ds, clientX, dayWidth) ==
    IF ds = Null THEN [dragState |-> ds, dispatched |-> <<>>]
    ELSE
    LET daysDelta == SnappedDays(clientX - ds.startX, dayWidth)
        dates == BarDragDates(ds, daysDelta)
    IN  IF ds.mode = "group-move"
        THEN [dragState |-> [ds EXCEPT !.lastAppliedDelta = daysDelta],
              dispatched |-> << [edit |-> "onGroupDrag", nodeId |-> ds.nodeId,
                                 days |-> daysDelta] >>]
        ELSE [dragState |-> ds,
              dispatched |-> << [edit |-> "onBarDrag", nodeId |-> ds.nodeId,
                                 start |-> dates.start, end |-> dates.end] >>]

\* a handler that applies to the origin what the pointer moved since the last
\* move, in every mode
handleMouseMoveSinceLast(ds, clientX, dayWidth) ==
    IF ds = Null THEN [dragState |-> ds, dispatched |-> <<>>]
    ELSE
    LET daysDelta == SnappedDays(clientX - ds.startX, dayWidth)
        deltaDiff == RSub(daysDelta, ds.lastAppliedDelta)
        dates == BarDragDates(ds, deltaDiff)
    IN  IF ds.mode = "group-move"
        THEN IF daysDelta # ds.lastAppliedDelta
             THEN [dragState |-> [ds EXCEPT !.lastAppliedDelta = daysDelta],
                   dispatched |-> << [edit |-> "onGroupDrag", nodeId |-> ds.nodeId,
                                      days |-> deltaDiff] >>]
             ELSE [dragState |-> ds, dispatched |-> <<>>]
        ELSE [dragState |-> [ds EXCEPT !.lastAppliedDelta = daysDelta],
              dispatched |-> << [edit |-> "onBarDrag", nodeId |-> ds.nodeId,
                                 start |-> dates.start, end |-> dates.end] >>]

\* handleMouseMove(event): the session afterwards and the edits handed to the host
handleMouseMove(ds, clientX, dayWidth) ==
    IF ds = Null THEN [dragState |-> ds, dispatched |-> <<>>]
    ELSE
    LET daysDelta == SnappedDays(clientX - ds.startX, dayWidth)
        dates == BarDragDates(ds, daysDelta)
    IN  IF ds.mode = "group-move"
        THEN IF daysDelta # ds.lastAppliedDelta
             THEN [dragState |-> [ds EXCEPT !.lastAppliedDelta = daysDelta],
                   dispatched |-> << [edit |-> "onGroupDrag", nodeId |-> ds.nodeId,
                                      days |-> RSub(daysDelta, ds.lastAppliedDelta)] >>]
             ELSE [dragState |-> ds, dispatched |-> <<>>]
        ELSE [dragState |-> ds,
              dispatched |-> << [edit |-> "onBarDrag", nodeId |-> ds.nodeId,
                                 start |-> dates.start, end |-> dates.end] >>]

\* updateNode(nodes, nodeId, updates) with updates = {start, end}
updateNode(ns, nodeId, updates) ==
    { IF node.id = nodeId
      THEN [node EXCEPT !.start = updates.start, !.end = updates.end]
      ELSE node : node \in ns }

\* collectDescendants: the ids reached from `ids` along parentId
RECURSIVE collectDescendants(_, _)
collectDescendants(ns, ids) ==
    LET more == ids \cup {n.id : n \in {m \in ns : m.parentId \in ids}}
    IN  IF more = ids THEN ids ELSE collectDescendants(ns, more)

\* updateNodeAndDescendants(nodes, targetId, delta)
updateNodeAndDescendants(ns, targetId, delta) ==
    LET descendants == collectDescendants(ns, {targetId})
    IN  { IF n.id \in descendants
          THEN [n EXCEPT !.start = RAdd(n.start, delta), !.end = RAdd(n.end, delta)]
          ELSE n : n \in ns }

\* a controlled host applies the edits it is handed to its rows
HostApply(ns, dispatched) ==
    IF dispatched = <<>> THEN ns
    ELSE LET e == dispatched[1]
         IN  IF e.edit = "onBarDrag"
             THEN updateNode(ns, e.nodeId, [start |-> e.start, end |-> e.end])
             ELSE IF e.days # Zero
                  THEN updateNodeAndDescendants(ns, e.nodeId, e.days)
                  ELSE ns

\* handlePanEnd(): the contextmenu listener it also manages only calls
\* preventDefault and is left out
handlePanEnd(listeners) ==
    [panState |-> Null,
     listeners |-> removeEventListener(removeEventListener(listeners, "handlePanMove"),
                                       "handlePanEnd")]

\* handlePanMove(event): the pan state, whether it ended the pan, and the
\* offsets it assigned to the body pane
handlePanMove(ps, rightDown, clientX, clientY, st0) ==
    IF ps = Null
    THEN [panState |-> ps, ended |-> FALSE, wrote |-> FALSE, st |-> st0]
    ELSE IF ~rightDown
    THEN [panState |-> Null, ended |-> TRUE, wrote |-> FALSE, st |-> st0]
    ELSE LET deltaX == clientX - ps.startX
             deltaY == clientY - ps.startY
             st1 == SetLeft(st0, "bodyLeft", "body", RSub(ps.scrollLeft, Int2R(deltaX)))
             st2 == SetTop(st1, "bodyTop", "body", ps.scrollTop - deltaY)
         IN  [panState |-> ps, ended |-> FALSE, wrote |-> TRUE, st |-> st2]

\* the pointer moves: window delivers mousemove to the listeners registered
\* (the Y coordinate matters to a canvas pan only)
MouseMove ==
    /\ Mounted
    /\ pointerOps < MaxPointerOps
    /\ \E clientX \in MoveXs :
       \E clientY \in (IF panState = Null THEN DownYs ELSE MoveYs) :
       \E r \in {IF BagIn("handleMouseMove", windowListeners)
                 THEN handleMouseMove(dragState, clientX, configDayWidth)
                 ELSE [dragState |-> dragState, dispatched |-> <<>>]} :
       \E p \in {IF BagIn("handlePanMove", windowListeners)
                 THEN handlePanMove(panState, heldButton = "right", clientX, clientY,
                                    Start(dom, pendingScroll))
                 ELSE [panState |-> panState, ended |-> FALSE, wrote |-> FALSE,
                       st |-> Start(dom, pendingScroll)]} :
           /\ dragState' = r.dragState
           /\ nodes' = HostApply(nodes, r.dispatched)
           /\ groupSum' = IF r.dispatched # <<>> /\ r.dispatched[1].edit = "onGroupDrag"
                          THEN RAdd(groupSum, r.dispatched[1].days)
                          ELSE groupSum
           /\ panState' = p.panState
           /\ windowListeners' = IF p.ended THEN handlePanEnd(windowListeners).listeners
                                 ELSE windowListeners
           /\ dom' = p.st.dom
           /\ pendingScroll' = p.st.pending
           /\ isScrolling' = IF p.wrote THEN FALSE ELSE isScrolling
           /\ progWrites' = IF p.wrote THEN p.st.writes ELSE progWrites
           /\ lastStep' = [kind |-> "move", sessionBefore |-> dragState,
                           nodesBefore |-> nodes, panBefore |-> panState,
                           button |-> heldButton,
                           clientX |-> clientX, clientY |-> clientY,
                           dayWidth |-> configDayWidth,
                           dispatched |-> r.dispatched,
                           assigned |-> p.st.assigned]
    /\ pointerOps' = pointerOps + 1
    /\ UNCHANGED <<phase, clientWidth, tickVars, treeVars, lifeVars, storeVars,
                   zoomVars, timers, heldButton, scrollOps, zoomOps>>

\* the host takes a row out of the rows it hands to the chart
RemoveRow ==
    /\ Mounted
    /\ \E node \in nodes : nodes' = nodes \ {node}
    /\ lastStep' = NoStep
    /\ UNCHANGED <<phase, clientWidth, tickVars, treeVars, lifeVars, storeVars,
                   zoomVars, syncVars, panState, dragState, windowListeners,
                   heldButton, groupSum, progWrites, countVars>>

\* a mouseup handler that forgets to drop the session
handleMouseUpKeepsSession(listeners) ==
    [dragState |-> dragState,
     listeners |-> removeEventListener(removeEventListener(listeners, "handleMouseMove"),
                                       "handleMouseUp")]

\* handleMouseUp()
handleMouseUp(listeners) ==
    [dragState |-> Null,
     listeners |-> removeEventListener(removeEventListener(listeners, "handleMouseMove"),
                                       "handleMouseUp")]

\* the button is released where the window sees it: window delivers mouseup
\* to the listeners registered
MouseUp ==
    /\ Mounted
    /\ pointerOps < MaxPointerOps
    /\ buttonHeld
    /\ \E u \in {IF BagIn("handleMouseUp", windowListeners)
                 THEN handleMouseUp(windowListeners)
                 ELSE [dragState |-> dragState, listeners |-> windowListeners]} :
       \E e \in {IF BagIn("handlePanEnd", windowListeners)
                 THEN handlePanEnd(u.listeners)
                 ELSE [panState |-> panState, listeners |-> u.listeners]} :
           /\ dragState' = u.dragState
           /\ panState' = e.panState
           /\ windowListeners' = e.listeners
    /\ lastStep' = [kind |-> "up", button |-> heldButton,
                    sessionBefore |-> dragState, dispatched |-> <<>>]
    /\ heldButton' = "none"
    /\ pointerOps' = pointerOps + 1
    /\ UNCHANGED <<phase, clientWidth, tickVars, treeVars, lifeVars, storeVars,
                   zoomVars, syncVars, nodes, groupSum, progWrites, scrollOps,
                   zoomOps>>

\* the pointer is lost (pointercancel, window blur, release outside the
\* window): no mouseup reaches window, and nothing listens for the loss
PointerLost ==
    /\ Mounted
    /\ pointerOps < MaxPointerOps
    /\ buttonHeld
    /\ lastStep' = [kind |-> "lost", button |-> heldButton,
                    sessionBefore |-> dragState, dispatched |-> <<>>]
    /\ heldButton' = "none"
    /\ pointerOps' = pointerOps + 1
    /\ UNCHANGED <<phase, clientWidth, tickVars, treeVars, lifeVars, storeVars,
                   zoomVars, syncVars, panState, nodes, dragState, windowListeners,
                   groupSum, progWrites, scrollOps, zoomOps>>

NextDrag ==
    \/ Mount
    \/ FirstFrame
    \/ SecondFrame
    \/ BarMouseDown
    \/ MouseMove
    \/ MouseUp
    \/ PointerLost
    \/ RemoveRow

SpecDrag == Init /\ [][NextDrag]_vars

\* C9: the controller is idle or dragging: a mousedown on a bar opens the one
\* session, a move during a session keeps that session (node, mode, origin
\* and start position), a mouseup closes it, and a move with no session
\* dispatches nothing and leaves the controller idle.
C9_DragStateMachine ==
    /\ lastStep.kind = "down" => dragState # Null
    /\ lastStep.kind = "up" => dragState = Null
    /\ (lastStep.kind = "move" /\ lastStep.sessionBefore = Null) =>
           /\ lastStep.dispatched = <<>>
           /\ dragState = Null
    /\ (lastStep.kind = "move" /\ lastStep.sessionBefore # Null) =>
           /\ dragState # Null
           /\ [dragState EXCEPT !.lastAppliedDelta = Zero] =
                  [lastStep.sessionBefore EXCEPT !.lastAppliedDelta = Zero]
           /\ Len(lastStep.dispatched) <= 1

\* after earlier pointer input, a move arrived while the controller was idle
C9_Witness ==
    /\ lastStep.kind = "move"
    /\ lastStep.sessionBefore = Null
    /\ dragState = Null
    /\ pointerOps >= 3
    /\ ~buttonHeld

\* C10: a pointer-up and a loss of the pointer both close the session: after
\* either the controller is idle, and a move made while no button is held
\* dispatches no edit.
C10_SessionClosedOnPointerLoss ==
    /\ lastStep.kind \in {"up", "lost"} => dragState = Null
    /\ (lastStep.kind = "move" /\ ~buttonHeld) => lastStep.dispatched = <<>>

\* the inputs of pointer and viewport share one budget
PanBudget == pointerOps + scrollOps + zoomOps < MaxPanOps

NextPan ==
    \/ Mount
    \/ FirstFrame
    \/ SecondFrame
    \/ handleTimelineScroll
    \/ handleHeaderScroll
    \/ handleTreeScroll
    \/ ReleaseGuard
    \/ (PanBudget /\ CanvasMouseDown)
    \/ (PanBudget /\ BarMouseDown)
    \/ (PanBudget /\ MouseMove)
    \/ (PanBudget /\ MouseUp)
    \/ (PanBudget /\ PointerLost)
    \/ (PanBudget /\ scrollToDate)
    \/ (PanBudget /\ handleWheel)

SpecPan == Init /\ [][NextPan]_vars

(***************************************************************************)
(* zoom-scale.ts, timeline-calculations.ts: tick definitions               *)
(***************************************************************************)
\* Array.prototype.sort((a, b) => b.minScale - a.minScale): stable, descending
RECURSIVE InsertDesc(_, _)
InsertDesc(sorted, def) ==
    IF sorted = <<>> THEN <<def>>
    ELSE IF RLt(Head(sorted).minScale, def.minScale) THEN <<def>> \o sorted
    ELSE <<Head(sorted)>> \o InsertDesc(Tail(sorted), def)

RECURSIVE SortDesc(_)
SortDesc(table) ==
    IF table = <<>> THEN <<>>
    ELSE InsertDesc(SortDesc(SubSeq(table, 1, Len(table) - 1)), table[Len(table)])

\* findIndex(d => d.minScale === minScale), 1-based; 0 when there is none
findIndex(table, minScale) ==
    LET hits == {i \in DOMAIN table : table[i].minScale = minScale}
    IN  IF hits = {} THEN 0 ELSE CHOOSE i \in hits : \A j \in hits : i <= j

\* everything but the tick table and the history
NonTickVars ==
    <<phase, clientWidth, treeVars, lifeVars, storeVars, zoomVars, syncVars, panState, dragVars,
      progWrites, countVars>>

\* addCustomTickDefinition(definition)
addCustomTickDefinition ==
    /\ \E definition \in CustomTickDefinitions :
         LET existingIndex == findIndex(tickDefinitions, definition.minScale)
             stored == IF existingIndex > 0
                       THEN [tickDefinitions EXCEPT ![existingIndex] = definition]
                       ELSE Append(tickDefinitions, definition)
         IN  /\ tickDefinitions' = SortDesc(stored)
             /\ lastStep' = NoStep
    /\ UNCHANGED <<customTickDefs, NonTickVars>>

\* removeCustomTickDefinition(minScale)
removeCustomTickDefinition ==
    /\ \E minScale \in RemovedMinScales :
         LET index == findIndex(tickDefinitions, minScale)
         IN  /\ tickDefinitions' =
                    IF index > 0
                    THEN SubSeq(tickDefinitions, 1, index - 1) \o
                         SubSeq(tickDefinitions, index + 1, Len(tickDefinitions))
                    ELSE tickDefinitions
             /\ lastStep' = NoStep
    /\ UNCHANGED <<customTickDefs, NonTickVars>>

\* getTickGenerationDefForScale: the if-chain, top to bottom
TickGenerationChain == <<
    [minScale |-> <<17, 1>>,     minorUnit |-> "hour",  minorInterval |-> <<1, 24>>],
    [minScale |-> <<11, 2>>,     minorUnit |-> "hour",  minorInterval |-> <<3, 24>>],
    [minScale |-> <<14, 5>>,     minorUnit |-> "hour",  minorInterval |-> <<6, 24>>],
    [minScale |-> <<7, 5>>,      minorUnit |-> "hour",  minorInterval |-> <<12, 24>>],
    [minScale |-> <<19, 20>>,    minorUnit |-> "day",   minorInterval |-> <<1, 1>>],
    [minScale |-> <<12, 25>>,    minorUnit |-> "day",   minorInterval |-> <<2, 1>>],
    [minScale |-> <<6, 25>>,     minorUnit |-> "day",   minorInterval |-> <<4, 1>>],
    [minScale |-> <<17, 100>>,   minorUnit |-> "week",  minorInterval |-> <<7, 1>>],
    [minScale |-> <<17, 200>>,   minorUnit |-> "week",  minorInterval |-> <<14, 1>>],
    [minScale |-> <<1, 25>>,     minorUnit |-> "month", minorInterval |-> <<30, 1>>],
    [minScale |-> <<13, 1000>>,  minorUnit |-> "month", minorInterval |-> <<90, 1>>] >>

\* the final return of getTickGenerationDefForScale
YearGenerationDef ==
    [minScale |-> Undefined, minorUnit |-> "year", minorInterval |-> <<365, 1>>]

RECURSIVE FirstGenerationDef(_, _)
FirstGenerationDef(scale, i) ==
    IF i > Len(TickGenerationChain) THEN YearGenerationDef
    ELSE IF RLe(TickGenerationChain[i].minScale, scale) THEN TickGenerationChain[i]
    ELSE FirstGenerationDef(scale, i + 1)

getTickGenerationDefForScale(scale) == FirstGenerationDef(scale, 1)

\* tick-generator.ts, customTickDefs.set(minScale, def): one entry per key
MapSet(map, key, value) ==
    [k \in DOMAIN map \cup {key} |-> IF k = key THEN value ELSE map[k]]

\* tick-generator.ts, addCustomTickGenerationDef(minScale, def)
addCustomTickGenerationDef ==
    /\ \E minScale \in CustomGenerationMinScales, def \in CustomGenerationDefs :
         customTickDefs' = MapSet(customTickDefs, minScale, def)
    /\ lastStep' = NoStep
    /\ UNCHANGED <<tickDefinitions, NonTickVars>>

\* the keys of customTickDefs that a scale reaches (scale >= minScale)
ReachedKeys(scale) == {k \in DOMAIN customTickDefs : RLe(k, scale)}

\* reading a property of undefined
TypeError == [threw |-> "TypeError"]

\* tick-generator.ts, getTickGenerationDefForScale(scale), the function the
\* header labels with (GanttChart.svelte: headerTickDef): the custom entries
\* in descending minScale order first, then the table of zoom-scale.ts.
\* `custom` and `minScale` record which entry answered; the table of
\* zoom-scale.ts has no minorUnit.
headerTickDef(scale) ==
    IF ReachedKeys(scale) # {}
    THEN LET first == CHOOSE k \in ReachedKeys(scale) :
                          \A other \in ReachedKeys(scale) : RLe(other, k)
         IN  [custom |-> TRUE, minScale |-> first,
              minorUnit |-> customTickDefs[first].minorUnit,
              minorInterval |-> customTickDefs[first].minorInterval]
    ELSE LET tickDef == getTickDefinitionForScale(scale)
         IN  IF tickDef = Undefined THEN TypeError
             ELSE [custom |-> FALSE, minScale |-> tickDef.minScale,
                   minorUnit |-> Undefined,
                   minorInterval |-> tickDef.interval]

\* a tick definition is looked up for a scale, through every function
SelectTick ==
    /\ \E scale \in TickScales :
         lastStep' = [kind |-> "tick", scale |-> scale,
                      def |-> getTickDefinitionForScale(scale),
                      generationDef |-> getTickGenerationDefForScale(scale),
                      headerDef |-> headerTickDef(scale)]
    /\ UNCHANGED <<tickVars, NonTickVars>>

NextTick ==
    \/ addCustomTickDefinition
    \/ removeCustomTickDefinition
    \/ SelectTick

SpecTick == Init /\ [][NextTick]_vars

\* the definitions of a table that apply to a scale
Applicable(table, scale) ==
    {i \in DOMAIN table : RLe(table[i].minScale, scale)}

\* C17: tick selection scans the table in descending minScale order and
\* returns the first definition with minScale <= scale, the boundary
\* included (with thresholds 0.95, 0.48, 0: scale 0.95 selects the 0.95
\* definition, 0.94 the 0.48 definition); for every scale >= 0 exactly one
\* definition is returned, and it is the same one whenever the scale and
\* the table are the same.
C17_TickSelection ==
    lastStep.kind = "tick" =>
        LET table == tickDefinitions
            scale == lastStep.scale
            hits == Applicable(table, scale)
            chainHits == Applicable(TickGenerationChain, scale)
        IN  /\ \A i, j \in DOMAIN table :
                   i < j => RLt(table[j].minScale, table[i].minScale)
            /\ hits # {} =>
                   /\ lastStep.def \in {table[i] : i \in hits}
                   /\ \A i \in hits : RLe(table[i].minScale, lastStep.def.minScale)
            /\ lastStep.def # Undefined
            /\ \E i \in DOMAIN table : lastStep.def = table[i]
            /\ chainHits # {} =>
                   /\ lastStep.generationDef \in {TickGenerationChain[i] : i \in chainHits}
                   /\ \A i \in chainHits :
                          RLe(TickGenerationChain[i].minScale,
                              lastStep.generationDef.minScale)
            /\ chainHits = {} => lastStep.generationDef = YearGenerationDef
            /\ scale = <<19, 20>> => lastStep.generationDef.minScale = <<19, 20>>
            /\ scale = <<47, 50>> => lastStep.generationDef.minScale = <<12, 25>>

\* the snapped day delta the contract prescribes for a move step
ContractDayDelta(rawDeltaPx, dayWidth) ==
    RDiv(Int2R(Round(RDiv(Int2R(rawDeltaPx),
                          RDiv(dayWidth, Int2R(dragSnapDivision))))),
         Int2R(dragSnapDivision))

\* a pointer move delivered to an open session
MoveInSession == lastStep.kind = "move" /\ lastStep.sessionBefore # Null

\* the raw pixel delta of the last move
RawDeltaPx == lastStep.clientX - lastStep.sessionBefore.startX

C12_MoveKeepsDuration ==
    (MoveInSession /\ lastStep.sessionBefore.mode = "move") =>
        LET ds == lastStep.sessionBefore
            dayDelta == ContractDayDelta(RawDeltaPx, lastStep.dayWidth)
        IN  /\ Len(lastStep.dispatched) = 1
            /\ lastStep.dispatched[1].edit = "onBarDrag"
            /\ lastStep.dispatched[1].nodeId = ds.nodeId
            /\ lastStep.dispatched[1].start = RAdd(ds.originalStart, dayDelta)
            /\ lastStep.dispatched[1].end = RAdd(ds.originalEnd, dayDelta)
            /\ RSub(lastStep.dispatched[1].end, lastStep.dispatched[1].start) =
                   RSub(ds.originalEnd, ds.originalStart)

\* a half-day bar was moved by a quarter of a day
C12_Witness ==
    /\ MoveInSession
    /\ lastStep.sessionBefore.mode = "move"
    /\ RSub(lastStep.sessionBefore.originalEnd,
            lastStep.sessionBefore.originalStart) = <<1, 2>>
    /\ RSub(lastStep.dispatched[1].start,
            lastStep.sessionBefore.originalStart) = <<1, 4>>

\* a resize session on a row whose origin has start < end
ResizeInSession ==
    /\ MoveInSession
    /\ lastStep.sessionBefore.mode \in {"resize-start", "resize-end"}
    /\ RLt(lastStep.sessionBefore.originalStart, lastStep.sessionBefore.originalEnd)

\* C13: in resize-start and resize-end mode, for an origin with start < end
\* and every pointer delta, the dispatched pair has newStart < newEnd and
\* the endpoint that is not resized keeps its origin value.
C13_ResizeKeepsOrder ==
    ResizeInSession =>
        LET ds == lastStep.sessionBefore
            e == lastStep.dispatched[1]
        IN  /\ Len(lastStep.dispatched) = 1
            /\ e.edit = "onBarDrag"
            /\ RLt(e.start, e.end)
            /\ ds.mode = "resize-start" => e.end = ds.originalEnd
            /\ ds.mode = "resize-end" => e.start = ds.originalStart

\* the start handle was dragged far past the end of the bar
C13_Witness ==
    /\ ResizeInSession
    /\ lastStep.sessionBefore.mode = "resize-start"
    /\ RLt(lastStep.sessionBefore.originalEnd,
           RAdd(lastStep.sessionBefore.originalStart,
                ContractDayDelta(RawDeltaPx, lastStep.dayWidth)))
    /\ RLt(lastStep.dispatched[1].start, lastStep.dispatched[1].end)

\* C14: a resize is clamped to a span of at least 1 day: resize-start
\* dispatches newStart = min(originStart + dayDelta, originEnd - 1 day) and
\* resize-end dispatches newEnd = max(originEnd + dayDelta, originStart + 1
\* day), for every snapped day delta.
C14_ResizeMinSpan ==
    ResizeInSession =>
        LET ds == lastStep.sessionBefore
            e == lastStep.dispatched[1]
            dayDelta == ContractDayDelta(RawDeltaPx, lastStep.dayWidth)
        IN  /\ ds.mode = "resize-start" =>
                   e.start = RMin(RAdd(ds.originalStart, dayDelta),
                                  RSub(ds.originalEnd, Int2R(1)))
            /\ ds.mode = "resize-end" =>
                   e.end = RMax(RAdd(ds.originalEnd, dayDelta),
                                RAdd(ds.originalStart, Int2R(1)))

\* C15: in a group-move session a pointer move dispatches
\* (dayDelta - lastAppliedDayDelta) only when dayDelta differs from
\* lastAppliedDayDelta, and then sets lastAppliedDayDelta = dayDelta; so at
\* every point of the session the group deltas dispatched so far add up to
\* the snapped day delta of the latest pointer position, and none is zero.
C15_GroupMoveConservation ==
    /\ (lastStep.kind = "down" /\ dragState.mode = "group-move") =>
           /\ dragState.lastAppliedDelta = Zero
           /\ groupSum = Zero
    /\ (MoveInSession /\ lastStep.sessionBefore.mode = "group-move") =>
           LET ds == lastStep.sessionBefore
               dayDelta == ContractDayDelta(RawDeltaPx, lastStep.dayWidth)
           IN  /\ lastStep.dispatched =
                      IF dayDelta # ds.lastAppliedDelta
                      THEN << [edit |-> "onGroupDrag", nodeId |-> ds.nodeId,
                               days |-> RSub(dayDelta, ds.lastAppliedDelta)] >>
                      ELSE <<>>
               /\ \A i \in DOMAIN lastStep.dispatched :
                      lastStep.dispatched[i].days # Zero
               /\ dragState.lastAppliedDelta = dayDelta
               /\ groupSum = dayDelta

\* a group already moved was moved again, to another non-zero position
C15_Witness ==
    /\ MoveInSession
    /\ lastStep.sessionBefore.mode = "group-move"
    /\ lastStep.sessionBefore.lastAppliedDelta # Zero
    /\ lastStep.dispatched # <<>>
    /\ groupSum # Zero
    /\ groupSum = dragState.lastAppliedDelta

\* a pointer move in a session whose row is no longer among the rows
MoveOnRemovedRow ==
    /\ MoveInSession
    /\ \A n \in lastStep.nodesBefore : n.id # lastStep.sessionBefore.nodeId

\* C16: when the row a session targets has been removed from the rows while
\* the session is open, a later pointer move dispatches no edit for that
\* row, and the rows are left unchanged.
C16_RemovedTargetDropped ==
    MoveOnRemovedRow =>
        /\ lastStep.dispatched = <<>>
        /\ nodes = lastStep.nodesBefore

\* C18: every scroll offset the engine assigns to a pane is >= 0: the
\* expansion correction, the zoom correction, scrollToDate and the
\* canvas-pan write, for every input.
C18_AssignedOffsetsNonNegative ==
    "assigned" \in DOMAIN lastStep =>
        \A v \in lastStep.assigned : RLe(Zero, v)

\* C19: a right-button drag is a viewport operation only: from press to
\* release, wherever the press lands, it opens no drag session and
\* dispatches no edit; it only assigns the body pane's offsets, as anchor
\* offset minus pointer displacement.
C19_RightDragIsPanOnly ==
    /\ (lastStep.kind \in {"down", "canvas-down"} /\ lastStep.button = "right") =>
           /\ dragState = lastStep.sessionBefore
           /\ panState # Null
    /\ (lastStep.kind = "move" /\ lastStep.button = "right"
            /\ lastStep.sessionBefore = Null) =>
           /\ lastStep.dispatched = <<>>
           /\ dragState = Null
           /\ lastStep.panBefore # Null
           /\ lastStep.assigned =
                  { RSub(lastStep.panBefore.scrollLeft,
                         Int2R(lastStep.clientX - lastStep.panBefore.startX)),
                    Int2R(lastStep.panBefore.scrollTop
                              - (lastStep.clientY - lastStep.panBefore.startY)) }

\* C20: scrollToDate(target) extends the window when the target lies
\* outside it: after the call the window contains the target, and the body
\* offset is max(0, (target - window.start) x dayWidth - viewportWidth / 2)
\* measured against the window that is current after the call.
C20_ScrollToDateReachesTarget ==
    lastStep.kind = "jump" =>
        /\ extendedDateRange.start <= lastStep.targetDate
        /\ lastStep.targetDate <= extendedDateRange.end
        /\ dom.bodyLeft =
               RMax(Zero, RSub(RMul(Int2R(lastStep.targetDate - extendedDateRange.start),
                                    configDayWidth),
                               Half(clientWidth)))


(***************************************************************************)
(* zoom-scale.ts on floating-point numbers                                 *)
(*                                                                         *)
(* A JavaScript number is a binary floating-point number and every `*`     *)
(* and `/` returns the exact result rounded to the nearest representable   *)
(* number, ties to the even significand.  The format modelled here is the  *)
(* IEEE one with a significand of FloatPrecision bits instead of 53.       *)
(***************************************************************************)
\* bits of the significand, the leading one included
FloatPrecision == 5

Pow2(k) == IF k >= 0 THEN <<2 ^ k, 1>> ELSE <<1, 2 ^ (-k)>>

\* the e with 2^e <= x < 2^(e+1), for x > 0
FloatExponent(x) ==
    CHOOSE e \in -16 .. 16 : RLe(Pow2(e), x) /\ RLt(x, Pow2(e + 1))

\* the spacing of the representable numbers around x
Ulp(x) == Pow2(FloatExponent(x) - FloatPrecision + 1)

\* the nearest integer, a tie to the even one
RoundHalfEven(a) ==
    LET f == Floor(a)
        twice == RMul(Int2R(2), RSub(a, Int2R(f)))
    IN  IF RLt(twice, Int2R(1)) THEN f
        ELSE IF RLt(Int2R(1), twice) THEN f + 1
        ELSE IF f % 2 = 0 THEN f ELSE f + 1

\* a rounding that drops the bits it cannot keep
FlTruncate(x) ==
    IF x = Zero THEN Zero
    ELSE RMul(Int2R(Floor(RDiv(x, Ulp(x)))), Ulp(x))

\* round-to-nearest, ties-to-even: the representable number an exact
\* result x >= 0 is stored as
Fl(x) ==
    IF x = Zero THEN Zero
    ELSE RMul(Int2R(RoundHalfEven(RDiv(x, Ulp(x)))), Ulp(x))

\* getDayWidthFromScale / getScaleFromDayWidth as the engine evaluates them
getDayWidthFromScaleFloat(scale) == Fl(getDayWidthFromScale(scale))
getScaleFromDayWidthFloat(dayWidth) == Fl(getScaleFromDayWidth(dayWidth))

\* the representable scales within ZOOM_SCALE_LIMITS
FloatScales ==
    { v \in { RMul(Int2R(m), Pow2(e - FloatPrecision + 1)) :
                m \in 2 ^ (FloatPrecision - 1) .. 2 ^ FloatPrecision - 1,
                e \in -4 .. 7 } :
        RLe(ZOOM_MIN, v) /\ RLe(v, ZOOM_MAX) }

\* the scales a scale is compared with: the next representable one, and
\* the ends and the default of ZOOM_SCALE_LIMITS
ComparedScales(scale) ==
    {RAdd(scale, Ulp(scale)), Fl(ZOOM_MIN), <<1, 1>>, ZOOM_MAX} \cap FloatScales

\* the host holds a scale and a scale to compare it with
InitScale ==
    \E scale \in FloatScales : \E other \in ComparedScales(scale) :
        InitWith([kind |-> "scale-input", scale |-> scale, other |-> other],
                 TestTree, DEFAULT_MODE)

\* the host converts its scale to a day width and back, and the other scale
\* to its day width
ConvertScale ==
    /\ lastStep.kind = "scale-input"
    /\ lastStep' = [kind |-> "scale", scale |-> lastStep.scale,
                    other |-> lastStep.other,
                    dayWidth |-> getDayWidthFromScaleFloat(lastStep.scale),
                    otherDayWidth |-> getDayWidthFromScaleFloat(lastStep.other),
                    back |-> getScaleFromDayWidthFloat(
                                 getDayWidthFromScaleFloat(lastStep.scale))]
    /\ UNCHANGED <<tickVars, NonTickVars>>

NextScale == ConvertScale

SpecScale == InitScale /\ [][NextScale]_vars

\* the values of the scale / width scenario
ScaleScenario ==
    /\ getDayWidthFromScaleFloat(<<1, 1>>) = <<40, 1>>
    /\ getDayWidthFromScaleFloat(<<1, 2>>) = <<20, 1>>
    /\ getScaleFromDayWidthFloat(<<20, 1>>) = <<1, 2>>

MaxToggleOps == 3

\* the objects a list refers to
Deref(h, list) == [i \in DOMAIN list |-> h[list[i]]]

\* nodes.map(node => node.id === nodeId ? {...node, isCollapsed: !node.isCollapsed}
\* : node) from element i on; the heap and the list it leaves
RECURSIVE mapToggle(_, _, _, _, _)
mapToggle(h, list, nodeId, i, out) ==
    IF i > Len(list) THEN [heap |-> h, list |-> out]
    ELSE IF h[list[i]].id = nodeId
    THEN mapToggle(Append(h, [h[list[i]] EXCEPT !.isCollapsed = ~@]), list, nodeId,
                   i + 1, Append(out, Len(h) + 1))
    ELSE mapToggle(h, list, nodeId, i + 1, Append(out, list[i]))

\* a toggle that flips the flag of the object it finds
toggleNodeCollapseInPlace(h, list, nodeId) ==
    [heap |-> [r \in DOMAIN h |->
                  IF \E i \in DOMAIN list : list[i] = r /\ h[r].id = nodeId
                  THEN [h[r] EXCEPT !.isCollapsed = ~@] ELSE h[r]],
     list |-> list]

\* toggleNodeCollapse(nodes, nodeId)
toggleNodeCollapse(h, list, nodeId) == mapToggle(h, list, nodeId, 1, <<>>)

\* toggleCollapse: what the `nodes` writable holds afterwards
StoreAfter(mode, current, newNodes) ==
    IF mode = "uncontrolled" THEN newNodes ELSE current

\* store.toggleCollapse(nodeId)
toggleCollapse ==
    /\ pointerOps < MaxToggleOps
    /\ \E nodeId \in ToggleIds :
       \E r \in {toggleNodeCollapse(heap, storeNodes, nodeId)} :
           /\ heap' = r.heap
           /\ storeNodes' = StoreAfter(storeMode, storeNodes, r.list)
           /\ lastStep' = [kind |-> "toggle", nodeId |-> nodeId, heapBefore |-> heap,
                           input |-> storeNodes, hostBefore |-> hostNodes,
                           returned |-> r.list]
    /\ pointerOps' = pointerOps + 1
    /\ UNCHANGED <<phase, clientWidth, tickVars, hostNodes, storeMode, lifeVars,
                   storeVars, zoomVars, syncVars, panState, dragVars, progWrites,
                   scrollOps, zoomOps>>

\* store.setNodes(newNodes): the host hands the list a toggle returned back
\* to the chart, whose reactive block passes it to the store
setNodes ==
    /\ lastStep.kind = "toggle"
    /\ storeNodes' = lastStep.returned
    /\ hostNodes' = lastStep.returned
    /\ lastStep' = NoStep
    /\ UNCHANGED <<phase, clientWidth, tickVars, heap, storeMode, lifeVars,
                   storeVars, zoomVars, syncVars, panState, dragVars, progWrites,
                   countVars>>

\* a host creates its store with a node list and a mode
InitTree ==
    \E initialNodes \in InitialTrees, mode \in Modes :
        InitWith(NoStep, initialNodes, mode)

NextTree ==
    \/ toggleCollapse
    \/ setNodes

SpecTree == InitTree /\ [][NextTree]_vars

\* the positions of a list that hold node nodeId
Holding(objects, nodeId) == {i \in DOMAIN objects : objects[i].id = nodeId}

\* C22: toggleCollapse(id) returns the store's list with node id's
\* isCollapsed flipped and every other node as it was; the store's own list
\* is the returned list in uncontrolled mode and is left as it was in
\* controlled mode; the list passed in, the host's list and every object
\* that existed before are not changed.
C22_ToggleCollapseFrame ==
    lastStep.kind = "toggle" =>
        LET before == Deref(lastStep.heapBefore, lastStep.input)
            returned == Deref(heap, lastStep.returned)
        IN  /\ DOMAIN returned = DOMAIN before
            /\ \A i \in DOMAIN before :
                   returned[i] =
                       IF before[i].id = lastStep.nodeId
                       THEN [before[i] EXCEPT !.isCollapsed = ~before[i].isCollapsed]
                       ELSE before[i]
            /\ storeMode = "controlled" => storeNodes = lastStep.input
            /\ storeMode = "uncontrolled" => storeNodes = lastStep.returned
            /\ hostNodes = lastStep.hostBefore
            /\ \A r \in DOMAIN lastStep.heapBefore : heap[r] = lastStep.heapBefore[r]
            /\ Deref(heap, lastStep.input) = before

\* in uncontrolled mode a toggle of a node of the list changed the store's
\* list and left the host's list alone
C22_Witness ==
    /\ lastStep.kind = "toggle"
    /\ storeMode = "uncontrolled"
    /\ Holding(Deref(heap, lastStep.input), lastStep.nodeId) # {}
    /\ Deref(heap, storeNodes) # Deref(heap, lastStep.input)
    /\ Deref(heap, hostNodes) # Deref(heap, storeNodes)


\* buildNodeMap(nodes).get(nodeId): the last node of the list with the id,
\* Null when there is none
nodeMapGet(objects, nodeId) ==
    LET hits == Holding(objects, nodeId)
    IN  IF hits = {} THEN Null
        ELSE objects[CHOOSE i \in hits : \A j \in hits : j <= i]

\* buildHierarchyMap(nodes).get(parentId) ?? []: the ids of the nodes with
\* that parent, in list order ("none" is the key 'root')
childrenIds(objects, parentId) ==
    LET IsChild(n) == n.parentId = parentId
        children == SelectSeq(objects, IsChild)
    IN  [i \in DOMAIN children |-> children[i].id]

RECURSIVE calculateDepth(_, _)
calculateDepth(objects, nodeId) ==
    LET node == nodeMapGet(objects, nodeId)
    IN  IF node = Null THEN 0
        ELSE IF node.parentId = "none" THEN 0
        ELSE 1 + calculateDepth(objects, node.parentId)

\* a visibility that looks at the parent alone
isNodeVisibleParentOnly(objects, nodeId) ==
    LET node == nodeMapGet(objects, nodeId)
        parent == nodeMapGet(objects, node.parentId)
    IN  IF node = Null THEN FALSE
        ELSE IF node.parentId = "none" THEN TRUE
        ELSE IF parent = Null THEN TRUE
        ELSE ~parent.isCollapsed

RECURSIVE isNodeVisible(_, _)
isNodeVisible(objects, nodeId) ==
    LET node == nodeMapGet(objects, nodeId)
        parent == nodeMapGet(objects, node.parentId)
    IN  IF node = Null THEN FALSE
        ELSE IF node.parentId = "none" THEN TRUE
        ELSE IF parent = Null THEN TRUE
        ELSE IF parent.isCollapsed THEN FALSE
        ELSE isNodeVisible(objects, node.parentId)

\* traverse(nodeId) of computeNodes, and its loop over the children: the
\* computed nodes pushed to `result`, visualIndex still -1
RECURSIVE traverse(_, _)
RECURSIVE traverseAll(_, _)
traverse(objects, nodeId) ==
    LET node == nodeMapGet(objects, nodeId)
        children == childrenIds(objects, nodeId)
    IN  IF node = Null THEN <<>>
        ELSE << [id |-> node.id, parentId |-> node.parentId,
                 isCollapsed |-> node.isCollapsed,
                 depth |-> calculateDepth(objects, nodeId),
                 isVisible |-> isNodeVisible(objects, nodeId),
                 visualIndex |-> -1,
                 childrenIds |-> children] >>
             \o traverseAll(objects, children)

traverseAll(objects, ids) ==
    IF ids = <<>> THEN <<>>
    ELSE traverse(objects, Head(ids)) \o traverseAll(objects, Tail(ids))

\* computeNodes(nodes): the traversal from the roots, then the visual indices
computeNodes(objects) ==
    LET result == traverseAll(objects, childrenIds(objects, "none"))
        VisibleBefore(i) == Cardinality({j \in 1 .. i - 1 : result[j].isVisible})
    IN  [i \in DOMAIN result |->
            IF result[i].isVisible
            THEN [result[i] EXCEPT !.visualIndex = VisibleBefore(i)]
            ELSE result[i]]

\* getVisibleNodes(computedNodes)
getVisibleNodes(computed) ==
    LET IsVisible(n) == n.isVisible
    IN  SelectSeq(computed, IsVisible)

\* the derived stores of the store: computedNodes and visibleNodes
computedNodes == computeNodes(Deref(heap, storeNodes))
visibleNodes == getVisibleNodes(computedNodes)


\* the ancestors of a node of a well-formed tree
RECURSIVE Ancestors(_, _)
Ancestors(objects, nodeId) ==
    LET parentId == nodeMapGet(objects, nodeId).parentId
    IN  IF parentId = "none" THEN {}
        ELSE {parentId} \cup Ancestors(objects, parentId)

\* the list positions met on the way from a root down to a node
RECURSIVE PathTo(_, _)
PathTo(objects, nodeId) ==
    LET position == CHOOSE i \in DOMAIN objects : objects[i].id = nodeId
        parentId == objects[position].parentId
    IN  IF parentId = "none" THEN <<position>>
        ELSE Append(PathTo(objects, parentId), position)

\* depth-first pre-order: an ancestor comes before its descendants, and of
\* two subtrees of one node the one listed first comes first
PreOrderBefore(objects, a, b) ==
    LET p == PathTo(objects, a)
        q == PathTo(objects, b)
    IN  \E k \in 1 .. Len(q) :
            /\ \A j \in 1 .. k - 1 : j <= Len(p) /\ p[j] = q[j]
            /\ \/ k = Len(p) + 1
               \/ k <= Len(p) /\ p[k] < q[k]

\* C23: whatever toggles came before, a node of the store's list is in the
\* visible rows iff none of its ancestors is collapsed; the visible rows are
\* in depth-first pre-order of the list's tree and carry visualIndex 0, 1,
\* ..., k-1, and the computed nodes that are hidden carry visualIndex -1.
C23_VisibleRows ==
    LET objects == Deref(heap, storeNodes)
        visible == visibleNodes
    IN  /\ \A n \in {objects[i] : i \in DOMAIN objects} :
               (\E i \in DOMAIN visible : visible[i].id = n.id) <=>
               (\A a \in Ancestors(objects, n.id) : ~nodeMapGet(objects, a).isCollapsed)
        /\ \A i, j \in DOMAIN visible :
               i < j => PreOrderBefore(objects, visible[i].id, visible[j].id)
        /\ \A i \in DOMAIN visible : visible[i].visualIndex = i - 1
        /\ \A i \in DOMAIN computedNodes :
               ~computedNodes[i].isVisible => computedNodes[i].visualIndex = -1

\* after a toggle a node is hidden by a collapsed ancestor that is not its
\* parent, and a row after the collapsed subtree moved up
C23_Witness ==
    LET objects == Deref(heap, storeNodes)
    IN  /\ pointerOps > 0
        /\ \E n \in {objects[i] : i \in DOMAIN objects} :
               /\ n.parentId # "none"
               /\ ~nodeMapGet(objects, n.parentId).isCollapsed
               /\ \A i \in DOMAIN visibleNodes : visibleNodes[i].id # n.id
        /\ \E i \in DOMAIN computedNodes :
               /\ computedNodes[i].isVisible
               /\ computedNodes[i].visualIndex < i - 1


(***************************************************************************)
(* GanttChart.svelte onMount, lifecycle-events.ts: lifecycle events        *)
(***************************************************************************)
\* the callback of tick().then: emit('ready')
EmitReady ==
    /\ readyQueued
    /\ readyQueued' = FALSE
    /\ eventQueue' = emit(eventQueue, "ready")
    /\ lastStep' = NoStep
    /\ UNCHANGED <<phase, clientWidth, tickVars, treeVars, isDisposed, storeVars,
                   zoomVars, syncVars, panState, dragVars, progWrites, countVars>>

\* LifecycleEventEmitter.dispose(), called by the host
dispose ==
    /\ ~isDisposed
    /\ isDisposed' = TRUE
    /\ eventQueue' = <<>>
    /\ lastStep' = NoStep
    /\ UNCHANGED <<phase, clientWidth, tickVars, treeVars, readyQueued, storeVars,
                   zoomVars, syncVars, panState, dragVars, progWrites, countVars>>

NextLifecycle ==
    \/ Mount
    \/ FirstFrame
    \/ SecondFrame
    \/ EmitReady
    \/ dispose
    \/ UserScrollBodyY
    \/ handleTimelineScroll
    \/ handleTreeScroll
    \/ ReleaseGuard

\* the browser runs every animation-frame callback and every microtask
LifecycleFairness ==
    /\ WF_vars(FirstFrame)
    /\ WF_vars(SecondFrame)
    /\ WF_vars(EmitReady)

SpecLifecycle == Init /\ [][NextLifecycle]_vars /\ LifecycleFairness

\* LifecyclePhase, in the order of the documentation
LifecyclePhases == <<"initializing", "rendering", "mounted", "ready">>

IsPrefix(p, q) == Len(p) <= Len(q) /\ \A i \in DOMAIN p : p[i] = q[i]

\* C24: the event history is at every moment a beginning of initializing,
\* rendering, mounted, ready (each phase at most once, in that order);
\* 'ready' is in it only when the render lifecycle is ready; and once the
\* chart is mounted the history becomes all four phases, unless the host
\* disposes the emitter, which empties the history for good.
C24_LifecycleOrder ==
    /\ [](IsPrefix(eventQueue, LifecyclePhases))
    /\ []((\E i \in DOMAIN eventQueue : eventQueue[i] = "ready") => isReady)
    /\ (Mounted ~> (eventQueue = LifecyclePhases \/ isDisposed))

\* all four phases were emitted, the last one after the render lifecycle was
\* marked ready, and the emitter is in use
C24_Witness ==
    /\ eventQueue = LifecyclePhases
    /\ isReady
    /\ ~readyQueued
    /\ ~isDisposed


(***************************************************************************)
(* GanttChart.svelte: the re-entrancy guard                                *)
(***************************************************************************)
\* C25: a scroll event delivered to any of the three handlers while the
\* guard is set changes no pane's offset, does not run the expansion check
\* (the window is as it was), queues no release timer and leaves the guard
\* set.
C25_GuardedScrollIgnored ==
    lastStep.kind = "ignored" =>
        /\ dom = lastStep.domBefore
        /\ extendedDateRange = lastStep.rangeBefore
        /\ timers = lastStep.timersBefore
        /\ isScrolling
        /\ lastStep.pane \notin pendingScroll

\* the body pane's handler set the guard and wrote the header; the header's
\* scroll event arrived before the release timer and was dropped
C25_Witness ==
    /\ lastStep.kind = "ignored"
    /\ lastStep.pane = "header"
    /\ timers > 0


\* C26: a handler that sets the guard for a programmatic scroll write (a
\* scroll handler that passed the guard, a canvas-pan move that wrote the
\* body pane) returns with the guard still set, and the guard is cleared by
\* a release timer only.
C26_GuardReleaseDeferred ==
    [][ /\ timers' = timers + 1 => isScrolling'
        /\ (lastStep'.kind = "move" /\ lastStep'.assigned # {}) => isScrolling'
        /\ (isScrolling /\ ~isScrolling') => timers' = timers - 1 ]_vars


(***************************************************************************)
(* gantt-store.ts: the expansion check, seen from the body pane's handler  *)
(***************************************************************************)
\* the step just taken ran the expansion check
ExpansionChecked == lastStep.kind \in {"expand", "no-expand"}

\* the quantities of the contract, from what the handler was called with
ContractViewportDays == Ceil(RDiv(Int2R(clientWidth), lastStep.dayWidth))
ContractScrollDays == RDiv(lastStep.scrollLeft, lastStep.dayWidth)
ContractTotalDays == lastStep.rangeBefore.end - lastStep.rangeBefore.start
ContractLeft == RLt(ContractScrollDays, Half(ContractViewportDays))
ContractRight ==
    RLt(RSub(Int2R(ContractTotalDays - ContractViewportDays), Half(ContractViewportDays)),
        ContractScrollDays)
ContractBufferDays == calculateAdaptiveBuffer(ContractViewportDays, lastStep.zoomScale)

\* C27: the expansion check moves window.start back by bufferDays exactly
\* when scrollDays < 0.5 x viewportDays, moves window.end forward by the
\* same bufferDays exactly when scrollDays > totalDays - 0.5 x viewportDays
\* - viewportDays, leaves the window and the body pane's offset as they were
\* when neither holds, and returns true iff it moved at least one end.
C27_ExpansionCheck ==
    ExpansionChecked =>
        /\ extendedDateRange.start =
               IF ContractLeft THEN lastStep.rangeBefore.start - ContractBufferDays
               ELSE lastStep.rangeBefore.start
        /\ extendedDateRange.end =
               IF ContractRight THEN lastStep.rangeBefore.end + ContractBufferDays
               ELSE lastStep.rangeBefore.end
        /\ (~ContractLeft /\ ~ContractRight) =>
               /\ extendedDateRange = lastStep.rangeBefore
               /\ dom.bodyLeft = lastStep.scrollLeft
        /\ lastStep.returned = (ContractLeft \/ ContractRight)
        /\ (lastStep.kind = "expand") = lastStep.returned

\* the check extended the right end only, from a scroll to the far right
C27_Witness ==
    /\ ExpansionChecked
    /\ lastStep.returned
    /\ ContractRight
    /\ ~ContractLeft
    /\ extendedDateRange.end > lastStep.rangeBefore.end
    /\ extendedDateRange.start = lastStep.rangeBefore.start


\* the assignments to the two horizontal panes, in the order they were made
HorizontalWrites(log) ==
    LET IsHorizontal(w) == w[1] \in {"header", "body"}
    IN  SelectSeq(log, IsHorizontal)

\* C28: the body pane's handler assigns the body's offset to the header
\* (when the header is elsewhere), then runs the expansion check, and when
\* the check extended the window it assigns the corrected offset to the body
\* and then the body's offset to the header; the header has the body's
\* offset when the handler returns.
C28_HeaderResynced ==
    ExpansionChecked =>
        /\ HorizontalWrites(lastStep.log) =
               (IF lastStep.headerBefore # lastStep.scrollLeft
                THEN << <<"header", lastStep.scrollLeft>> >> ELSE <<>>)
               \o
               (IF lastStep.returned
                THEN << <<"body", RMax(Zero, lastStep.computed)>>,
                        <<"header", dom.bodyLeft>> >>
                ELSE <<>>)
        /\ dom.headerLeft = dom.bodyLeft

\* the header was moved to the body's offset, the window was extended, the
\* body got a different, corrected offset and the header was moved again
C28_Witness ==
    /\ lastStep.kind = "expand"
    /\ Len(HorizontalWrites(lastStep.log)) = 3
    /\ dom.bodyLeft # lastStep.scrollLeft
    /\ dom.headerLeft = dom.bodyLeft


(***************************************************************************)
(* gantt-store.ts: calculateAdaptiveBuffer as a function                   *)
(***************************************************************************)
\* the store computes a buffer for a viewport and a scale
ComputeBuffer ==
    /\ \E viewport \in BufferViewports, zoomScale \in BufferScales :
         LET viewportDays == ViewportDays(viewport.containerWidth, viewport.dayWidth)
         IN  lastStep' = [kind |-> "buffer", viewportDays |-> viewportDays,
                          zoomScale |-> zoomScale,
                          bufferDays |-> calculateAdaptiveBuffer(viewportDays, zoomScale)]
    /\ UNCHANGED <<tickVars, NonTickVars>>

NextBuffer ==
    \/ addCustomTickDefinition
    \/ ComputeBuffer

SpecBuffer == Init /\ [][NextBuffer]_vars

\* the minor interval, in days, of the first definition of the table, from
\* the top, that applies to the scale
ContractIntervalDays ==
    LET hits == Applicable(tickDefinitions, lastStep.zoomScale)
        first == CHOOSE i \in hits : \A j \in hits : i <= j
    IN  tickDefinitions[first].interval

\* max(ceil(viewportDays x a), ceil(intervalDays x b))
ContractTier(a, b) ==
    IMax(Ceil(RMul(Int2R(lastStep.viewportDays), Int2R(a))),
         Ceil(RMul(ContractIntervalDays, Int2R(b))))

\* C29: bufferDays is max(ceil(viewportDays x 3), ceil(intervalDays x 50))
\* for intervalDays < 1, max(ceil(viewportDays x 5), ceil(intervalDays x 30))
\* for 1 <= intervalDays <= 7, max(ceil(viewportDays x 8),
\* ceil(intervalDays x 20)) for 7 < intervalDays <= 31 and
\* max(ceil(viewportDays x 15), ceil(intervalDays x 15)) above 31, with
\* intervalDays the minor interval of the definition selected for the scale
\* (25 viewport days and a 1-day interval give 125).
C29_AdaptiveBuffer ==
    lastStep.kind = "buffer" =>
        LET d == ContractIntervalDays
            one == Int2R(1)
            week == Int2R(7)
            month == Int2R(31)
        IN  /\ RLt(d, one) => lastStep.bufferDays = ContractTier(3, 50)
            /\ (RLe(one, d) /\ RLe(d, week)) => lastStep.bufferDays = ContractTier(5, 30)
            /\ (RLt(week, d) /\ RLe(d, month)) => lastStep.bufferDays = ContractTier(8, 20)
            /\ RLt(month, d) => lastStep.bufferDays = ContractTier(15, 15)
            /\ (lastStep.viewportDays = 25 /\ d = one) => lastStep.bufferDays = 125

\* the scenario: 1000 px at 40 px per day, a 1-day minor interval, 125 days
C29_Witness ==
    /\ lastStep.kind = "buffer"
    /\ lastStep.viewportDays = 25
    /\ ContractIntervalDays = <<1, 1>>
    /\ lastStep.bufferDays = 125


(***************************************************************************)
(* zoom-scale.ts: the tick table under registration and removal            *)
(***************************************************************************)
\* the minScale values of a table
MinScales(table) == {table[i].minScale : i \in DOMAIN table}

\* non-empty, strictly descending in minScale, ending with minScale 0
TableWellFormed(table) ==
    /\ table # <<>>
    /\ \A i, j \in DOMAIN table : i < j => RLt(table[j].minScale, table[i].minScale)
    /\ table[Len(table)].minScale = <<0, 1>>

\* a step that registered a definition: the table changed without shrinking
Registered == tickDefinitions' # tickDefinitions /\ Len(tickDefinitions') >= Len(tickDefinitions)

\* C30: after any sequence of addCustomTickDefinition and
\* removeCustomTickDefinition calls the tick table is non-empty, strictly
\* descending in minScale without two entries of one minScale, and its last
\* entry has minScale 0; registering a definition whose minScale is already
\* in the table replaces that entry (same length, same minScale values) and
\* a new minScale adds exactly one entry.
C30_TickTableInvariant ==
    [][ /\ TableWellFormed(tickDefinitions')
        /\ Registered =>
               \E definition \in CustomTickDefinitions :
                   /\ \E i \in DOMAIN tickDefinitions' : tickDefinitions'[i] = definition
                   /\ MinScales(tickDefinitions') =
                          MinScales(tickDefinitions) \cup {definition.minScale}
                   /\ Len(tickDefinitions') =
                          IF definition.minScale \in MinScales(tickDefinitions)
                          THEN Len(tickDefinitions)
                          ELSE Len(tickDefinitions) + 1 ]_vars


(***************************************************************************)
(* gantt-store.ts: an expansion followed by a second check                 *)
(***************************************************************************)
\* the largest scrollLeft a pane showing the window can hold
ScrollableMax(range, dayWidth) ==
    RMax(Zero, RSub(RMul(Int2R(range.end - range.start), dayWidth), Int2R(clientWidth)))

\* the check the scroll event of the corrected offset would make
SecondCheck ==
    expandExtendedDateRangeIfNeeded(lastStep.bodyAfter, clientWidth, lastStep.dayWidth,
                                    lastStep.zoomScale, extendedDateRange)

\* the body pane was inside the window shown when the check extended it
ExpandedInRange ==
    /\ lastStep.kind = "expand"
    /\ RLe(lastStep.scrollLeft, ScrollableMax(lastStep.rangeBefore, lastStep.dayWidth))

C32_DetectorFollowsChart ==
    /\ (lastStep.kind \in ZoomKinds /\ detector # Null) =>
           detector.currentScale = currentZoomScale
    /\ (lastStep.kind = "wheel-out" /\ lastStep.chartBefore = ZOOM_MAX) =>
           RLt(currentZoomScale, ZOOM_MAX)
    /\ (lastStep.kind = "wheel-in" /\ lastStep.chartBefore = ZOOM_MIN) =>
           RLt(ZOOM_MIN, currentZoomScale)


(***************************************************************************)
(* gantt-store.ts and GanttChart.svelte: dayWidth and the two scales       *)
(***************************************************************************)
\* C33: from creation onward and after every zoom or config update,
\* config.dayWidth is BASE_DAY_WIDTH times the store's zoomScale and the
\* chart's currentZoomScale is the store's zoomScale.
C33_DayWidthFollowsScale ==
    /\ configDayWidth = getDayWidthFromScale(storeZoomScale)
    /\ currentZoomScale = storeZoomScale


(***************************************************************************)
(* GanttChart.svelte: try / finally of the scroll handlers                 *)
(***************************************************************************)
\* the host of a ready chart removes the finest definition left (a
\* restriction of the host's calls, not of the function)
RemovesHead ==
    /\ isReady
    /\ tickDefinitions # <<>>
    /\ tickDefinitions' = Tail(tickDefinitions)

\* handleTimelineScroll whose body throws and whose release sits in the try
\* block, after the store call
TimelineScrollThrowsNoFinally ==
    /\ ~isScrolling
    /\ \E st \in {IF dom.headerLeft # dom.bodyLeft
                  THEN SetLeft(Start(dom, pendingScroll \ {"body"}), "headerLeft",
                               "header", dom.bodyLeft)
                  ELSE Start(dom, pendingScroll \ {"body"})} :
           /\ dom' = st.dom
           /\ pendingScroll' = st.pending
           /\ isScrolling' = TRUE
           /\ progWrites' = progWrites + st.writes
           /\ lastStep' = [kind |-> "threw", log |-> st.log]
    /\ UNCHANGED <<timers, storeVars>>

\* handleTimelineScroll past the guard when the store call throws (the
\* selected tick definition is undefined): the header was written, the
\* window and the row labels were not, and finally queues the release
TimelineScrollThrows ==
    /\ ~isScrolling
    /\ \E st \in {IF dom.headerLeft # dom.bodyLeft
                  THEN SetLeft(Start(dom, pendingScroll \ {"body"}), "headerLeft",
                               "header", dom.bodyLeft)
                  ELSE Start(dom, pendingScroll \ {"body"})} :
           /\ Handled(st)
           /\ lastStep' = [kind |-> "threw", log |-> st.log]
    /\ UNCHANGED storeVars

\* a body scroll event delivered while the tick table is empty
handleTimelineScrollOnEmptyTable ==
    /\ "body" \in pendingScroll
    /\ getTickDefinitionForScale(currentZoomScale) = Undefined
    /\ \/ Ignored("body")
       \/ TimelineScrollThrows
    /\ UNCHANGED <<phase, clientWidth, tickVars, treeVars, lifeVars, zoomVars,
                   panState, dragVars, countVars>>

NextGuard ==
    \/ Mount
    \/ FirstFrame
    \/ SecondFrame
    \/ UserScrollBodyX
    \/ UserScrollTree
    \/ (tickDefinitions # <<>> /\ handleTimelineScroll)
    \/ handleTimelineScrollOnEmptyTable
    \/ handleTreeScroll
    \/ handleHeaderScroll
    \/ ReleaseGuard
    \/ (RemovesHead /\ removeCustomTickDefinition)

\* the event loop delivers every queued scroll event and runs every queued timer
GuardFairness ==
    /\ WF_vars(tickDefinitions # <<>> /\ handleTimelineScroll)
    /\ WF_vars(handleTimelineScrollOnEmptyTable)
    /\ WF_vars(handleTreeScroll)
    /\ WF_vars(handleHeaderScroll)
    /\ WF_vars(ReleaseGuard)

SpecGuard == Init /\ [][NextGuard]_vars /\ GuardFairness

\* C34: every handler that sets the guard queues a release, also when its
\* body throws; a set guard always has a release queued, is eventually
\* cleared, and a scroll event is ignored only while the guard is set.
C34_GuardNeverStuck ==
    /\ [](isScrolling => timers > 0)
    /\ [][(~isScrolling /\ isScrolling') => timers' = timers + 1]_vars
    /\ [][lastStep'.kind = "ignored" => isScrolling]_vars
    /\ isScrolling ~> ~isScrolling

\* the store call threw inside handleTimelineScroll: the guard is set and its
\* release is queued
C34_Witness ==
    /\ lastStep.kind = "threw"
    /\ tickDefinitions = <<>>
    /\ isScrolling
    /\ timers = 1


(***************************************************************************)
(* GanttChart.svelte: who clears the guard                                 *)
(***************************************************************************)
\* C35: while scroll events of a handler's pane writes are still queued, the
\* guard it set is cleared only by the release that handler queued: by a
\* timer (not by a canvas-pan move), and by the only timer queued (timers
\* run in the order they were queued, so with two queued the one that runs
\* is left over from an earlier invocation).
C35_GuardOwnedByInvocation ==
    [][ (isScrolling /\ ~isScrolling' /\ pendingScroll # {}) =>
            /\ timers' = timers - 1
            /\ timers = 1 ]_vars


(***************************************************************************)
(* GanttTimeline.svelte: the window listeners of a drag                    *)
(***************************************************************************)
\* the two listeners of the drag controller
DragListeners == {"handleMouseMove", "handleMouseUp"}

\* C36: after any sequence of pointer-down, pointer-move and pointer-up
\* events on bars, handles and group backgrounds, each of the window-level
\* mousemove / mouseup drag listeners is attached iff a session is open, and
\* at most one copy of each is attached.
C36_ListenersFollowSession ==
    \A listener \in DragListeners :
        /\ BagIn(listener, windowListeners) <=> dragState # Null
        /\ CopiesIn(listener, windowListeners) <= 1

\* a press on a bar while an earlier session was still open (its pointer was
\* lost): the listeners were registered a second time and one copy is held
C36_Witness ==
    /\ lastStep.kind = "down"
    /\ lastStep.sessionBefore # Null
    /\ \A listener \in DragListeners : CopiesIn(listener, windowListeners) = 1


(***************************************************************************)
(* GanttTimeline.svelte: the pointer back at the anchor                    *)
(***************************************************************************)
\* a move of an open session with the pointer at the X of the press
MoveAtAnchor == MoveInSession /\ RawDeltaPx = 0

\* a bar session (move, resize-start or resize-end)
BarSession == lastStep.sessionBefore.mode \in {"move", "resize-start", "resize-end"}

\* an earlier move of the session took the row away from its origin
RowAwayFromOrigin ==
    \E node \in lastStep.nodesBefore :
        /\ node.id = lastStep.sessionBefore.nodeId
        /\ <<node.start, node.end>> #
               <<lastStep.sessionBefore.originalStart, lastStep.sessionBefore.originalEnd>>

\* C37: in move, resize-start and resize-end mode a move with the pointer
\* back at the anchor X dispatches exactly (originStart, originEnd),
\* whatever moves came before; in group-move mode the deltas dispatched in
\* the session then add up to 0.
C37_AnchorRestoresOrigin ==
    MoveAtAnchor =>
        LET ds == lastStep.sessionBefore
        IN  /\ BarSession =>
                /\ Len(lastStep.dispatched) = 1
                /\ lastStep.dispatched[1].start = ds.originalStart
                /\ lastStep.dispatched[1].end = ds.originalEnd
            /\ ds.mode = "group-move" => groupSum = Zero

\* C37, amended: the same for every session whose origin has
\* originStart < originEnd (a resize of a row of no duration is clamped to a
\* span of one day already at the anchor).
C37_AnchorRestoresOriginOfSpan ==
    MoveAtAnchor =>
        LET ds == lastStep.sessionBefore
        IN  /\ (BarSession /\ RLt(ds.originalStart, ds.originalEnd)) =>
                /\ Len(lastStep.dispatched) = 1
                /\ lastStep.dispatched[1].start = ds.originalStart
                /\ lastStep.dispatched[1].end = ds.originalEnd
            /\ (BarSession /\ ds.mode = "move") =>
                /\ Len(lastStep.dispatched) = 1
                /\ lastStep.dispatched[1].start = ds.originalStart
                /\ lastStep.dispatched[1].end = ds.originalEnd
            /\ ds.mode = "group-move" => groupSum = Zero

\* a resized row was away from its origin and the pointer came back to the
\* anchor
C37_Witness ==
    /\ MoveAtAnchor
    /\ lastStep.sessionBefore.mode = "resize-end"
    /\ RowAwayFromOrigin
    /\ lastStep.dispatched[1].end = lastStep.sessionBefore.originalEnd

(***************************************************************************)
(* tick-generator.ts: the header's tick definitions                        *)
(***************************************************************************)
NextGeneration ==
    \/ addCustomTickDefinition
    \/ addCustomTickGenerationDef
    \/ SelectTick

SpecGeneration == Init /\ [][NextGeneration]_vars

\* the thresholds registered in either registry, the built-in ones included
Thresholds == MinScales(tickDefinitions) \cup DOMAIN customTickDefs

\* no threshold lies above m and at or below the scale
NextLargerAbove(m, scale) ==
    \A t \in Thresholds : ~(RLt(m, t) /\ RLe(t, scale))

\* C38: for every scale and every sequence of custom registrations, the
\* definition the header is labelled with (getTickGenerationDefForScale of
\* tick-generator.ts) and the definition the buffer is sized with
\* (getTickDefinitionForScale) have the same minor interval, and a custom
\* definition registered at minScale m answers only for scales from m up to
\* the next larger registered or built-in threshold.
C38_HeaderAndBufferAgree ==
    lastStep.kind = "tick" =>
        /\ lastStep.headerDef # TypeError
        /\ lastStep.def # Undefined
        /\ lastStep.headerDef.minorInterval = lastStep.def.interval
        /\ RLe(lastStep.headerDef.minScale, lastStep.scale)
        /\ NextLargerAbove(lastStep.headerDef.minScale, lastStep.scale)
        /\ RLe(lastStep.def.minScale, lastStep.scale)
        /\ NextLargerAbove(lastStep.def.minScale, lastStep.scale)

=============================================================================
